---- MODULE Spec2Model ----
(***************************************************************************)
(* Chat / project persistence layer of bolt.diy.                           *)
(*                                                                         *)
(* Part 1: app/lib/persistence/pg.data.server.ts on top of the query       *)
(* gateway app/lib/db.server.ts.  Every `await query(...)` is one step of  *)
(* a request; the gateway hands the statement to pool.query, which runs it *)
(* on whichever pooled connection the pool picks.  A connection keeps its  *)
(* transaction state between statements, as a PostgreSQL session does.     *)
(***************************************************************************)
EXTENDS Integers, Sequences, FiniteSets, TLC

(* ------------------------------ bounds -------------------------------- *)
PoolSize == 2
NumProcs == 2
MaxCalls == 1
MaxFailures == 1
MaxClock == 3
MaxRepoCalls == 2
MaxRows == 3
ObserveCalls == 2
RegisterCalls == 2
HistoryCalls == 1
RaceCalls == 2
GatewayCalls == 3

Conns == 1..PoolSize
Procs == 1..NumProcs
Users == {1, 2}

NullText == "<null>"
Undefined == "<undefined>"
NoEmbedding == << >>

VARIABLES db, conns, clock, proc, calls, failures, repo, last, rcalls, workload, hook

vars == <<db, conns, clock, proc, calls, failures, repo, last, rcalls, workload, hook>>
chatVars == <<db, conns, proc, calls>>
repoVars == <<repo, last, rcalls, workload, hook>>

(* --------------------------- small helpers ---------------------------- *)
Ids(S) == {r.id : r \in S}

\* rows of `pend` replace the rows of `base` that carry the same id
Merge(base, pend) == {r \in base : r.id \notin Ids(pend)} \cup pend

\* a JavaScript property read: a column the SELECT did not return is undefined
Prop(obj, f, undef) == IF f \in DOMAIN obj THEN obj[f] ELSE undef

\* JSON.stringify(number[]) as sent to the vector column, and the column's parse
Stringify(e) == <<"json", e>>
ParseVector(t) == IF t = NoEmbedding THEN NoEmbedding ELSE t[2]

\* message.embedding ? JSON.stringify(message.embedding) : null
EmbeddingParam(message) ==
  LET e == Prop(message, "embedding", NoEmbedding)
  IN  IF e # NoEmbedding THEN Stringify(e) ELSE NoEmbedding

SetToSeqs(S) ==
  {f \in [1..Cardinality(S) -> S] : \A i, j \in 1..Cardinality(S) : i # j => f[i] # f[j]}

\* ORDER BY created_at ASC: rows with equal created_at come in any order
OrderByCreatedAtAsc(S) ==
  {f \in SetToSeqs(S) : \A i, j \in 1..Len(f) : i < j => f[i].created_at <= f[j].created_at}

\* ORDER BY updated_at DESC: rows with equal updated_at come in any order
OrderByUpdatedAtDesc(S) ==
  {f \in SetToSeqs(S) : \A i, j \in 1..Len(f) : i < j => f[i].updated_at >= f[j].updated_at}

\* ORDER BY created_at DESC LIMIT 1
LatestByCreatedAt(S) ==
  {r \in S : \A q \in S : q.created_at <= r.created_at}

(* --------------------- connections and statements --------------------- *)
\* chats, messages, snapshots: rows written in the open transaction;
\* gone, goneUsers, goneSnapshots: ids of the chats, users and snapshots it deleted
IdleConn ==
  [tx |-> "none", since |-> 0, chats |-> {}, messages |-> {}, snapshots |-> {},
   gone |-> {}, goneUsers |-> {}, goneSnapshots |-> {}]

\* ON DELETE CASCADE: the tables without the given users and chats, the chats of
\* those users, and the messages and snapshots of all those chats
Cascade_chatsOnly(t, userIds, chatIds) ==
  [t EXCEPT !.users = {u \in @ : u.id \notin userIds},
            !.chats = {ch \in @ : ch.id \notin chatIds /\ ch.user_id \notin userIds}]

Cascade(t, userIds, chatIds) ==
  LET chats == {ch \in t.chats : ch.id \notin chatIds /\ ch.user_id \notin userIds}
  IN  [t EXCEPT !.users = {u \in @ : u.id \notin userIds},
                !.chats = chats,
                !.messages = {m \in @ : m.chat_id \in Ids(chats)},
                !.snapshots = {x \in @ : x.chat_id \in Ids(chats)}]

\* the tables as the open transaction of c would commit them
Merged(c) ==
  Cascade([db EXCEPT !.chats = Merge(@, conns[c].chats),
                     !.messages = Merge(@, conns[c].messages),
                     !.snapshots = {x \in Merge(@, conns[c].snapshots) :
                                      x.id \notin conns[c].goneSnapshots}],
          conns[c].goneUsers, conns[c].gone)

\* what a statement running on connection c sees (READ COMMITTED)
View(c) == IF conns[c].tx = "open" THEN Merged(c) ELSE db

\* CURRENT_TIMESTAMP: the start of the transaction, or of the statement
Now(c) == IF conns[c].tx = "open" THEN conns[c].since ELSE clock

\* the statement never ran (pool or driver failure), or the session rejects it
Fault(c) == [ok |-> FALSE, val |-> <<>>, db |-> db, cn |-> conns[c]]

\* the statement raised an error in the database: an open transaction aborts
DbError(c) ==
  [ok |-> FALSE, val |-> <<>>, db |-> db,
   cn |-> IF conns[c].tx = "open" THEN [IdleConn EXCEPT !.tx = "aborted"] ELSE conns[c]]

Refused(c, fail) == fail \/ conns[c].tx = "aborted"

\* a row written on c: pending in c's open transaction, else committed at once
Write(c, table, row, seqs) ==
  IF conns[c].tx = "open"
  THEN [db |-> [db EXCEPT !.seq = seqs],
        cn |-> [conns[c] EXCEPT ![table] = Merge(@, {row})]]
  ELSE [db |-> [db EXCEPT ![table] = Merge(@, {row}), !.seq = seqs],
        cn |-> conns[c]]

\* an UPDATE waits for a row another open transaction has updated
RowLocked(c, id) ==
  /\ id \in Ids(db.chats)
  /\ \E c2 \in Conns \ {c} : conns[c2].tx = "open" /\ id \in Ids(conns[c2].chats)

\* a DELETE of a chat also waits for open transactions that deleted it or that
\* inserted rows referencing it
ChatLocked(c, id) ==
  \/ RowLocked(c, id)
  \/ \E c2 \in Conns \ {c} :
       /\ conns[c2].tx = "open"
       /\ \/ id \in conns[c2].gone
          \/ \E m \in conns[c2].messages \cup conns[c2].snapshots : m.chat_id = id

Begin(c, fail) ==
  IF fail THEN Fault(c)
  ELSE IF conns[c].tx = "aborted" THEN Fault(c)
  ELSE [ok |-> TRUE, val |-> <<>>, db |-> db,
        cn |-> IF conns[c].tx = "open" THEN conns[c]
               ELSE [IdleConn EXCEPT !.tx = "open", !.since = clock]]

Commit(c, fail) ==
  IF fail THEN Fault(c)
  ELSE [ok |-> TRUE, val |-> <<>>,
        db |-> IF conns[c].tx = "open" THEN Merged(c) ELSE db,
        cn |-> IdleConn]

Rollback(c, fail) ==
  IF fail THEN Fault(c)
  ELSE [ok |-> TRUE, val |-> <<>>, db |-> db, cn |-> IdleConn]

\* SELECT id, user_id, description, created_at, updated_at FROM chats
\*  WHERE id = $1 AND user_id = $2
SelectChat(c, fail, chatId, userId) ==
  IF Refused(c, fail) THEN Fault(c)
  ELSE [ok |-> TRUE,
        val |-> {[id |-> r.id, user_id |-> r.user_id, description |-> r.description,
                  updated_at |-> r.updated_at]
                 : r \in {q \in View(c).chats : q.id = chatId /\ q.user_id = userId}},
        db |-> db, cn |-> conns[c]]

\* SELECT id, user_id, description, created_at, updated_at FROM chats
\*  WHERE user_id = $1 ORDER BY updated_at DESC      (val: the possible results)
SelectChats(c, fail, userId) ==
  IF Refused(c, fail) THEN Fault(c)
  ELSE [ok |-> TRUE,
        val |-> OrderByUpdatedAtDesc(
                  {[id |-> r.id, user_id |-> r.user_id, description |-> r.description,
                    updated_at |-> r.updated_at]
                   : r \in {q \in View(c).chats : q.user_id = userId}}),
        db |-> db, cn |-> conns[c]]

\* SELECT id, chat_id, role, content, created_at FROM messages
\*  WHERE chat_id = $1 ORDER BY created_at ASC      (val: the possible results)
SelectMessages(c, fail, chatId) ==
  IF Refused(c, fail) THEN Fault(c)
  ELSE [ok |-> TRUE,
        val |-> OrderByCreatedAtAsc(
                  {[id |-> r.id, chat_id |-> r.chat_id, role |-> r.role,
                    content |-> r.content, created_at |-> r.created_at]
                   : r \in {q \in View(c).messages : q.chat_id = chatId}}),
        db |-> db, cn |-> conns[c]]

\* SELECT id, chat_id, snapshot_data, created_at FROM snapshots
\*  WHERE chat_id = $1 ORDER BY created_at DESC LIMIT 1
SelectSnapshot(c, fail, chatId) ==
  IF Refused(c, fail) THEN Fault(c)
  ELSE [ok |-> TRUE,
        val |-> LatestByCreatedAt({q \in View(c).snapshots : q.chat_id = chatId}),
        db |-> db, cn |-> conns[c]]

\* INSERT INTO chats (user_id, description, metadata, ...) RETURNING id
InsertChat(c, fail, userId, description, metadata) ==
  IF Refused(c, fail) THEN Fault(c)
  ELSE IF userId \notin Ids(View(c).users) THEN DbError(c)
  ELSE LET id == db.seq.chats
           row == [id |-> id, user_id |-> userId, description |-> description,
                   metadata |-> metadata, updated_at |-> Now(c)]
           w == Write(c, "chats", row, [db.seq EXCEPT !.chats = @ + 1])
       IN  [ok |-> TRUE, val |-> id, db |-> w.db, cn |-> w.cn]

\* INSERT INTO messages (chat_id, role, content, embedding [, created_at])
\* created_at = 0 stands for the column default
InsertMessage(c, fail, chatId, role, content, embedding, created_at) ==
  IF Refused(c, fail) THEN Fault(c)
  ELSE IF chatId \notin Ids(View(c).chats) THEN DbError(c)
  ELSE LET row == [id |-> db.seq.messages, chat_id |-> chatId, role |-> role,
                   content |-> content, embedding |-> ParseVector(embedding),
                   created_at |-> IF created_at = 0 THEN Now(c) ELSE created_at]
           w == Write(c, "messages", row, [db.seq EXCEPT !.messages = @ + 1])
       IN  [ok |-> TRUE, val |-> row.id, db |-> w.db, cn |-> w.cn]

\* INSERT INTO snapshots (chat_id, snapshot_data, created_at)
\*  VALUES ($1, $2, CURRENT_TIMESTAMP)
InsertSnapshot(c, fail, chatId, data) ==
  IF Refused(c, fail) THEN Fault(c)
  ELSE IF chatId \notin Ids(View(c).chats) THEN DbError(c)
  ELSE LET row == [id |-> db.seq.snapshots, chat_id |-> chatId,
                   snapshot_data |-> data, created_at |-> Now(c)]
           w == Write(c, "snapshots", row, [db.seq EXCEPT !.snapshots = @ + 1])
       IN  [ok |-> TRUE, val |-> row.id, db |-> w.db, cn |-> w.cn]

\* INSERT INTO snapshots (chat_id, snapshot_data) VALUES ($1, $2)
\*  ON CONFLICT (chat_id) DO UPDATE SET snapshot_data = EXCLUDED.snapshot_data, ...
\* setup_db.sql gives snapshots.chat_id an ordinary index and no unique or
\* exclusion constraint, so PostgreSQL rejects the statement when it analyses it
\* (42P10), whatever the rows are
UpsertSnapshot(c, fail, chatId, data) ==
  IF Refused(c, fail) THEN Fault(c) ELSE DbError(c)

\* DELETE FROM snapshots WHERE chat_id = $1      (val: the row count)
DeleteSnapshots(c, fail, chatId) ==
  IF Refused(c, fail) THEN Fault(c)
  ELSE LET hit == Ids({x \in View(c).snapshots : x.chat_id = chatId})
       IN  [ok |-> TRUE, val |-> Cardinality(hit),
            db |-> IF conns[c].tx = "open" THEN db
                   ELSE [db EXCEPT !.snapshots = {x \in @ : x.id \notin hit}],
            cn |-> IF conns[c].tx = "open"
                   THEN [conns[c] EXCEPT !.goneSnapshots = @ \cup hit,
                                         !.snapshots = {x \in @ : x.id \notin hit}]
                   ELSE conns[c]]

\* UPDATE chats SET [description = ..,] [metadata = ..,] updated_at = CURRENT_TIMESTAMP
\*  WHERE id = $1 AND user_id = $2      (val: the row count)
UpdateChat(c, fail, chatId, userId, description, metadata) ==
  IF Refused(c, fail) THEN Fault(c)
  ELSE LET hit == {q \in View(c).chats : q.id = chatId /\ q.user_id = userId}
           new == {[q EXCEPT !.description = IF description # Undefined THEN description ELSE @,
                             !.metadata = IF metadata # Undefined THEN metadata ELSE @,
                             !.updated_at = Now(c)] : q \in hit}
       IN  [ok |-> TRUE, val |-> Cardinality(hit),
            db |-> IF conns[c].tx = "open" THEN db
                   ELSE [db EXCEPT !.chats = Merge(@, new)],
            cn |-> IF conns[c].tx = "open"
                   THEN [conns[c] EXCEPT !.chats = Merge(@, new)]
                   ELSE conns[c]]

\* SELECT id FROM chats WHERE user_id = $1
SelectChatIds(c, fail, userId) ==
  IF Refused(c, fail) THEN Fault(c)
  ELSE [ok |-> TRUE, val |-> Ids({q \in View(c).chats : q.user_id = userId}),
        db |-> db, cn |-> conns[c]]

\* DELETE FROM chats WHERE `hit`; DELETE FROM users WHERE id = $1
\* (val: the row count)
Delete(c, fail, userIds, chatIds) ==
  IF Refused(c, fail) THEN Fault(c)
  ELSE [ok |-> TRUE, val |-> Cardinality(userIds) + Cardinality(chatIds),
        db |-> IF conns[c].tx = "open" THEN db ELSE Cascade(db, userIds, chatIds),
        cn |-> IF conns[c].tx = "open"
               THEN [conns[c] EXCEPT !.gone = @ \cup chatIds, !.goneUsers = @ \cup userIds]
               ELSE conns[c]]

\* DELETE FROM chats WHERE id = $1 AND user_id = $2
DeleteChat(c, fail, chatId, userId) ==
  Delete(c, fail, {}, Ids({q \in View(c).chats : q.id = chatId /\ q.user_id = userId}))

\* DELETE FROM chats WHERE user_id = $1
DeleteChats(c, fail, userId) ==
  Delete(c, fail, {}, Ids({q \in View(c).chats : q.user_id = userId}))

\* DELETE FROM users WHERE id = $1
DeleteUser(c, fail, userId) ==
  Delete(c, fail, Ids({u \in View(c).users : u.id = userId}), {})

\* the chats a DELETE of these users and chats removes
Doomed(c, userIds, chatIds) ==
  Ids({q \in View(c).chats : q.id \in chatIds \/ q.user_id \in userIds})

(* ------------------------------ requests ------------------------------ *)
IdleProc ==
  [pc |-> "idle", op |-> "none", userId |-> 0, chatId |-> 0, msgId |-> 0,
   messages |-> <<>>, description |-> Undefined, metadata |-> Undefined,
   chat |-> <<>>, list |-> <<>>, i |-> 0, newChatId |-> 0, snap |-> <<>>,
   snapshotData |-> Undefined, email |-> "", error |-> "", client |-> 0,
   used |-> {}, result |-> "none", ret |-> 0]

\* query(text, params) of db.server.ts: pool.query runs the statement on the
\* connection c the pool picked; r is what came back, np the request afterwards
query(p, c, fail, r, np) ==
  /\ fail => failures < MaxFailures
  /\ db' = r.db
  /\ conns' = [conns EXCEPT ![c] = r.cn]
  /\ failures' = IF fail THEN failures + 1 ELSE failures
  /\ proc' = [proc EXCEPT ![p] = [np EXCEPT !.used = @ \cup {c}]]
  /\ UNCHANGED <<clock, calls, repoVars>>

Resolve(P, value) == [P EXCEPT !.pc = "done", !.result = "ok", !.ret = value]
Reject(P) == [P EXCEPT !.pc = "done", !.result = "rejected"]
Goto(P, label) == [P EXCEPT !.pc = label]

\* ids a caller may name: every existing row's, and one that names no row
ChatIdArgs == Ids(db.chats) \cup {db.seq.chats}
MessageIdArgs == Ids(db.messages) \cup {db.seq.messages}

\* the requests a workload sends: "chat" any single chat request; "observe" a
\* lineage operation of user 1 followed by reads of user 1 that run beside it;
\* "race" a forkChat of user 1's chat at its first message beside a second one
\* or beside a saveChatMessages that fails its validation
LineageOps == {"saveChatMessages", "duplicateChat", "forkChat"}
ReadOps == {"getAllChats", "getChatDetails"}

RegisterOps == {"register", "register_remix"}

Admits(P) ==
  CASE workload = "observe" ->
         /\ P.userId = 1
         /\ IF calls = ObserveCalls
            THEN P.op \in LineageOps /\ P.description = Undefined
                 /\ (P.op = "saveChatMessages" => P.chatId = 0 /\ Len(P.messages) > 0)
                 /\ (P.op # "saveChatMessages" => P.chatId = 1)
            ELSE P.op \in ReadOps
    [] workload = "register" -> P.op \in RegisterOps
    [] workload = "history" -> FALSE
    [] workload = "gateway" -> P.op = "query_remix"
    [] workload = "race" ->
         \/ /\ P.op = "forkChat" /\ P.userId = 1 /\ P.chatId = 1
            /\ P.msgId = 1
         \/ /\ calls < RaceCalls
            /\ P.op = "saveChatMessages" /\ P.userId = 0 /\ P.chatId = 0
            /\ P.messages = <<>> /\ P.description = Undefined
    [] OTHER -> P.op \notin RegisterOps \cup {"query_remix"}

\* a request arrives and the first free worker starts running its handler
Call(p, P) ==
  /\ proc[p].pc = "idle" /\ calls > 0
  /\ Admits(P)
  /\ \A q \in 1..(p - 1) : proc[q].pc # "idle"
  /\ proc' = [proc EXCEPT ![p] = P]
  /\ calls' = calls - 1
  /\ UNCHANGED <<db, conns, clock, failures, repoVars>>

duplicateChatCall(p) ==
  \E chatId \in ChatIdArgs, userId \in Users :
    Call(p, [IdleProc EXCEPT !.pc = "dup_begin", !.op = "duplicateChat",
                             !.chatId = chatId, !.userId = userId])

duplicateChat(p) ==
  LET P == proc[p] IN
  \E c \in Conns, fail \in BOOLEAN :
    \/ /\ P.pc = "dup_begin"
       /\ LET r == Begin(c, fail)
          IN  query(p, c, fail, r, IF r.ok THEN Goto(P, "dup_chat") ELSE Reject(P))
    \/ /\ P.pc = "dup_chat"
       /\ LET r == SelectChat(c, fail, P.chatId, P.userId)
          IN  query(p, c, fail, r,
                    IF ~r.ok \/ r.val = {} THEN Goto(P, "dup_rollback")
                    ELSE [Goto(P, "dup_messages") EXCEPT !.chat = <<CHOOSE x \in r.val : TRUE>>])
    \/ /\ P.pc = "dup_messages"
       /\ LET r == SelectMessages(c, fail, P.chatId)
          IN  IF ~r.ok THEN query(p, c, fail, r, Goto(P, "dup_rollback"))
              ELSE \E rows \in r.val :
                     query(p, c, fail, r, [Goto(P, "dup_insertChat") EXCEPT !.list = rows])
    \/ /\ P.pc = "dup_insertChat"
       /\ LET originalChat == P.chat[1]
              newDescription == IF originalChat.description # NullText
                                THEN "Copy of " \o originalChat.description
                                ELSE "Copied Chat"
              r == InsertChat(c, fail, P.userId, newDescription,
                              Prop(originalChat, "metadata", NullText))
          IN  query(p, c, fail, r,
                    IF ~r.ok THEN Goto(P, "dup_rollback")
                    ELSE [P EXCEPT !.newChatId = r.val, !.i = 1,
                                   !.pc = IF Len(P.list) > 0 THEN "dup_insertMessage"
                                          ELSE "dup_snapshotCheck"])
    \/ /\ P.pc = "dup_insertMessage"
       /\ LET message == P.list[P.i]
              r == InsertMessage(c, fail, P.newChatId, message.role, message.content,
                                 EmbeddingParam(message), message.created_at)
          IN  query(p, c, fail, r,
                    IF ~r.ok THEN Goto(P, "dup_rollback")
                    ELSE [P EXCEPT !.i = @ + 1,
                                   !.pc = IF P.i < Len(P.list) THEN "dup_insertMessage"
                                          ELSE "dup_snapshotCheck"])
    \/ /\ P.pc = "dup_snapshotCheck"
       /\ LET r == SelectChat(c, fail, P.chatId, P.userId)
          IN  query(p, c, fail, r,
                    IF ~r.ok THEN Goto(P, "dup_rollback")
                    ELSE IF r.val = {} THEN Goto(P, "dup_commit")
                    ELSE Goto(P, "dup_snapshot"))
    \/ /\ P.pc = "dup_snapshot"
       /\ LET r == SelectSnapshot(c, fail, P.chatId)
          IN  IF ~r.ok THEN query(p, c, fail, r, Goto(P, "dup_rollback"))
              ELSE IF r.val = {} THEN query(p, c, fail, r, Goto(P, "dup_commit"))
              ELSE \E s \in r.val :
                     query(p, c, fail, r, [Goto(P, "dup_insertSnapshot") EXCEPT !.snap = <<s>>])
    \/ /\ P.pc = "dup_insertSnapshot"
       /\ LET r == InsertSnapshot(c, fail, P.newChatId, P.snap[1].snapshot_data)
          IN  query(p, c, fail, r,
                    IF r.ok THEN Goto(P, "dup_commit") ELSE Goto(P, "dup_rollback"))
    \/ /\ P.pc = "dup_commit"
       /\ LET r == Commit(c, fail)
          IN  query(p, c, fail, r,
                    IF r.ok THEN Resolve(P, P.newChatId) ELSE Goto(P, "dup_rollback"))
    \/ /\ P.pc = "dup_rollback"
       /\ LET r == Rollback(c, fail)
          IN  query(p, c, fail, r, Reject(P))

getChatDetailsCall(p) ==
  \E chatId \in ChatIdArgs, userId \in Users :
    Call(p, [IdleProc EXCEPT !.pc = "get_chat", !.op = "getChatDetails",
                             !.chatId = chatId, !.userId = userId])

\* ret = 0 stands for null; the chat read is kept in chat and list
getChatDetails(p) ==
  LET P == proc[p] IN
  \E c \in Conns, fail \in BOOLEAN :
    \/ /\ P.pc = "get_chat"
       /\ LET r == SelectChat(c, fail, P.chatId, P.userId)
          IN  query(p, c, fail, r,
                    IF ~r.ok THEN Reject(P)
                    ELSE IF r.val = {} THEN Resolve(P, 0)
                    ELSE [Goto(P, "get_messages") EXCEPT !.chat = <<CHOOSE x \in r.val : TRUE>>])
    \/ /\ P.pc = "get_messages"
       /\ LET r == SelectMessages(c, fail, P.chatId)
          IN  IF ~r.ok THEN query(p, c, fail, r, Reject(P))
              ELSE \E rows \in r.val :
                     query(p, c, fail, r, [Resolve(P, P.chatId) EXCEPT !.list = rows])

\* a missing userId (0) throws before the statement; ret is the number of rows
getAllChatsCall(p) ==
  \E userId \in {0} \cup Users :
    LET P == [IdleProc EXCEPT !.op = "getAllChats", !.userId = userId]
    IN  Call(p, IF userId = 0 THEN Reject(P) ELSE Goto(P, "all_select"))

getAllChats(p) ==
  LET P == proc[p] IN
  \E c \in Conns, fail \in BOOLEAN :
    /\ P.pc = "all_select"
    /\ LET r == SelectChats(c, fail, P.userId)
       IN  IF ~r.ok THEN query(p, c, fail, r, Reject(P))
           ELSE \E rows \in r.val :
                  query(p, c, fail, r, [Resolve(P, Len(rows)) EXCEPT !.list = rows])

getSnapshotCall(p) ==
  \E chatId \in ChatIdArgs, userId \in Users :
    Call(p, [IdleProc EXCEPT !.pc = "snap_check", !.op = "getSnapshot",
                             !.chatId = chatId, !.userId = userId])

\* ret = 0 stands for null; the snapshot read is kept in snap
getSnapshot(p) ==
  LET P == proc[p] IN
  \E c \in Conns, fail \in BOOLEAN :
    \/ /\ P.pc = "snap_check"
       /\ LET r == SelectChat(c, fail, P.chatId, P.userId)
          IN  query(p, c, fail, r,
                    IF ~r.ok THEN Reject(P)
                    ELSE IF r.val = {} THEN Resolve(P, 0)
                    ELSE Goto(P, "snap_select"))
    \/ /\ P.pc = "snap_select"
       /\ LET r == SelectSnapshot(c, fail, P.chatId)
          IN  IF ~r.ok THEN query(p, c, fail, r, Reject(P))
              ELSE IF r.val = {} THEN query(p, c, fail, r, Resolve(P, 0))
              ELSE \E s \in r.val :
                     query(p, c, fail, r, [Resolve(P, s.id) EXCEPT !.snap = <<s>>])

\* a missing chatId (0) or snapshotData (undefined) throws before BEGIN
setSnapshotCall(p) ==
  \E chatId \in {0} \cup ChatIdArgs, userId \in Users, snapshotData \in {Undefined, "files2"} :
    LET P == [IdleProc EXCEPT !.op = "setSnapshot", !.chatId = chatId, !.userId = userId,
                              !.snapshotData = snapshotData]
    IN  Call(p, IF chatId = 0 \/ snapshotData = Undefined THEN Reject(P)
                ELSE Goto(P, "setsnap_begin"))

\* BEGIN runs before the try block; the statements of the try block follow one
\* another until one throws; the catch block sends ROLLBACK and rethrows
setSnapshot(p) ==
  LET P == proc[p] IN
  \E c \in Conns, fail \in BOOLEAN :
    \/ /\ P.pc = "setsnap_begin"
       /\ LET r == Begin(c, fail)
          IN  query(p, c, fail, r, IF r.ok THEN Goto(P, "setsnap_check") ELSE Reject(P))
    \/ /\ P.pc \in {"setsnap_check", "setsnap_upsert", "setsnap_update", "setsnap_commit"}
       /\ P.pc = "setsnap_update" => ~RowLocked(c, P.chatId)
       /\ LET r == CASE P.pc = "setsnap_check" -> SelectChat(c, fail, P.chatId, P.userId)
                     [] P.pc = "setsnap_upsert" ->
                          UpsertSnapshot(c, fail, P.chatId, P.snapshotData)
                     [] P.pc = "setsnap_update" ->
                          UpdateChat(c, fail, P.chatId, P.userId, Undefined, Undefined)
                     [] P.pc = "setsnap_commit" -> Commit(c, fail)
          IN  query(p, c, fail, r,
                    IF ~r.ok THEN Goto(P, "setsnap_rollback")
                    ELSE CASE P.pc = "setsnap_check" ->
                                IF r.val = {} THEN Goto(P, "setsnap_rollback")
                                ELSE Goto(P, "setsnap_upsert")
                           [] P.pc = "setsnap_upsert" -> Goto(P, "setsnap_update")
                           [] P.pc = "setsnap_update" -> Goto(P, "setsnap_commit")
                           [] P.pc = "setsnap_commit" -> Resolve(P, 0))
    \/ /\ P.pc = "setsnap_rollback"
       /\ LET r == Rollback(c, fail)
          IN  query(p, c, fail, r, Reject(P))

deleteSnapshotCall(p) ==
  \E chatId \in {0} \cup ChatIdArgs, userId \in Users :
    LET P == [IdleProc EXCEPT !.op = "deleteSnapshot", !.chatId = chatId, !.userId = userId]
    IN  Call(p, IF chatId = 0 THEN Reject(P) ELSE Goto(P, "delsnap_begin"))

\* ret is the DELETE's row count
deleteSnapshot(p) ==
  LET P == proc[p] IN
  \E c \in Conns, fail \in BOOLEAN :
    \/ /\ P.pc = "delsnap_begin"
       /\ LET r == Begin(c, fail)
          IN  query(p, c, fail, r, IF r.ok THEN Goto(P, "delsnap_check") ELSE Reject(P))
    \/ /\ P.pc = "delsnap_check"
       /\ LET r == SelectChat(c, fail, P.chatId, P.userId)
          IN  query(p, c, fail, r,
                    IF ~r.ok \/ r.val = {} THEN Goto(P, "delsnap_rollback")
                    ELSE Goto(P, "delsnap_delete"))
    \/ /\ P.pc = "delsnap_delete"
       /\ LET r == DeleteSnapshots(c, fail, P.chatId)
          IN  query(p, c, fail, r,
                    IF r.ok THEN [Goto(P, "delsnap_update") EXCEPT !.ret = r.val]
                    ELSE Goto(P, "delsnap_rollback"))
    \/ /\ P.pc = "delsnap_update"
       /\ ~RowLocked(c, P.chatId)
       /\ LET r == UpdateChat(c, fail, P.chatId, P.userId, Undefined, Undefined)
          IN  query(p, c, fail, r,
                    IF r.ok THEN Goto(P, "delsnap_commit") ELSE Goto(P, "delsnap_rollback"))
    \/ /\ P.pc = "delsnap_commit"
       /\ LET r == Commit(c, fail)
          IN  query(p, c, fail, r,
                    IF r.ok THEN Resolve(P, P.ret) ELSE Goto(P, "delsnap_rollback"))
    \/ /\ P.pc = "delsnap_rollback"
       /\ LET r == Rollback(c, fail)
          IN  query(p, c, fail, r, Reject(P))

\* the messages a caller sends: role, content and optional embedding
MessageInputs ==
  {<< >>,
   <<[role |-> "user", content |-> "more", embedding |-> <<0, 1>>],
     [role |-> "assistant", content |-> "sure", embedding |-> NoEmbedding]>>}

\* userId 0 is a missing userId, chatId 0 a missing chatId; a failed validation
\* throws inside the try block, whose catch sends ROLLBACK
saveChatMessagesCall(p) ==
  \E userId \in {0} \cup Users, chatId \in {0} \cup ChatIdArgs, messages \in MessageInputs,
     dm \in {<<Undefined, Undefined>>, <<"renamed", "meta2">>} :
    Call(p, [IdleProc EXCEPT !.pc = IF userId = 0 \/ Len(messages) = 0
                                    THEN "save_rollback" ELSE "save_begin",
                             !.op = "saveChatMessages", !.userId = userId, !.chatId = chatId,
                             !.messages = messages, !.description = dm[1], !.metadata = dm[2]])

\* newChatId is the handler's currentChatId
saveChatMessages(p) ==
  LET P == proc[p] IN
  \E c \in Conns, fail \in BOOLEAN :
    \/ /\ P.pc = "save_begin"
       /\ LET r == Begin(c, fail)
          IN  query(p, c, fail, r,
                    IF ~r.ok THEN Goto(P, "save_rollback")
                    ELSE IF P.chatId = 0 THEN Goto(P, "save_insertChat")
                    ELSE [Goto(P, "save_updateChat") EXCEPT !.newChatId = P.chatId])
    \/ /\ P.pc = "save_insertChat"
       /\ LET r == InsertChat(c, fail, P.userId,
                              IF P.description = Undefined THEN NullText ELSE P.description,
                              IF P.metadata = Undefined THEN NullText ELSE P.metadata)
          IN  query(p, c, fail, r,
                    IF ~r.ok THEN Goto(P, "save_rollback")
                    ELSE [Goto(P, "save_insertMessage") EXCEPT !.newChatId = r.val, !.i = 1])
    \/ /\ P.pc = "save_updateChat"
       /\ ~RowLocked(c, P.chatId)
       /\ LET r == UpdateChat(c, fail, P.newChatId, P.userId, P.description, P.metadata)
          IN  query(p, c, fail, r,
                    IF ~r.ok THEN Goto(P, "save_rollback")
                    ELSE [Goto(P, "save_insertMessage") EXCEPT !.i = 1])
    \/ /\ P.pc = "save_insertMessage"
       /\ LET message == P.messages[P.i]
              r == InsertMessage(c, fail, P.newChatId, message.role, message.content,
                                 EmbeddingParam(message), 0)
          IN  query(p, c, fail, r,
                    IF ~r.ok THEN Goto(P, "save_rollback")
                    ELSE [P EXCEPT !.i = @ + 1,
                                   !.pc = IF P.i < Len(P.messages) THEN "save_insertMessage"
                                          ELSE "save_commit"])
    \/ /\ P.pc = "save_commit"
       /\ LET r == Commit(c, fail)
          IN  query(p, c, fail, r,
                    IF r.ok THEN Resolve(P, P.newChatId) ELSE Goto(P, "save_rollback"))
    \/ /\ P.pc = "save_rollback"
       /\ LET r == Rollback(c, fail)
          IN  query(p, c, fail, r, Reject(P))

\* createChatFromMessages validates, then runs saveChatMessages with no chatId
createChatFromMessagesCall(p) ==
  \E userId \in {0} \cup Users, description \in {Undefined, "draft"},
     messages \in MessageInputs :
    LET P == [IdleProc EXCEPT !.op = "createChatFromMessages", !.userId = userId,
                              !.messages = messages, !.description = description]
    IN  Call(p, IF userId = 0 \/ description = Undefined \/ Len(messages) = 0
                THEN Reject(P)
                ELSE Goto(P, "save_begin"))

\* a missing chatId or userId (0) throws before the statement
deleteChatByIdCall(p) ==
  \E chatId \in {0} \cup ChatIdArgs, userId \in Users :
    LET P == [IdleProc EXCEPT !.op = "deleteChatById", !.chatId = chatId, !.userId = userId]
    IN  Call(p, IF chatId = 0 THEN Reject(P) ELSE Goto(P, "del_chat"))

deleteChatById(p) ==
  LET P == proc[p] IN
  \E c \in Conns, fail \in BOOLEAN :
    /\ P.pc = "del_chat"
    /\ \A id \in Doomed(c, {}, {P.chatId}) : ~ChatLocked(c, id)
    /\ LET r == DeleteChat(c, fail, P.chatId, P.userId)
       IN  query(p, c, fail, r, IF r.ok THEN Resolve(P, 0) ELSE Reject(P))

deleteAllChatDataForUserCall(p) ==
  \E userId \in {0} \cup Users :
    LET P == [IdleProc EXCEPT !.op = "deleteAllChatDataForUser", !.userId = userId]
    IN  Call(p, IF userId = 0 THEN Reject(P) ELSE Goto(P, "wipe_begin"))

\* ret is the DELETE's row count
deleteAllChatDataForUser(p) ==
  LET P == proc[p] IN
  \E c \in Conns, fail \in BOOLEAN :
    \/ /\ P.pc = "wipe_begin"
       /\ LET r == Begin(c, fail)
          IN  query(p, c, fail, r, IF r.ok THEN Goto(P, "wipe_chatIds") ELSE Reject(P))
    \/ /\ P.pc = "wipe_chatIds"
       /\ LET r == SelectChatIds(c, fail, P.userId)
          IN  query(p, c, fail, r,
                    IF r.ok THEN Goto(P, "wipe_delete") ELSE Goto(P, "wipe_rollback"))
    \/ /\ P.pc = "wipe_delete"
       /\ \A id \in Doomed(c, {}, Ids({q \in View(c).chats : q.user_id = P.userId})) :
            ~ChatLocked(c, id)
       /\ LET r == DeleteChats(c, fail, P.userId)
          IN  query(p, c, fail, r,
                    IF r.ok THEN [Goto(P, "wipe_commit") EXCEPT !.ret = r.val]
                    ELSE Goto(P, "wipe_rollback"))
    \/ /\ P.pc = "wipe_commit"
       /\ LET r == Commit(c, fail)
          IN  query(p, c, fail, r, IF r.ok THEN Resolve(P, P.ret) ELSE Goto(P, "wipe_rollback"))
    \/ /\ P.pc = "wipe_rollback"
       /\ LET r == Rollback(c, fail)
          IN  query(p, c, fail, r, Reject(P))

\* an account is removed: DELETE FROM users WHERE id = $1, as the schema allows
deleteUserCall(p) ==
  \E userId \in Users :
    Call(p, [IdleProc EXCEPT !.pc = "user_delete", !.op = "deleteUser", !.userId = userId])

deleteUser(p) ==
  LET P == proc[p] IN
  \E c \in Conns, fail \in BOOLEAN :
    /\ P.pc = "user_delete"
    /\ \A id \in Doomed(c, {P.userId}, {}) : ~ChatLocked(c, id)
    /\ LET r == DeleteUser(c, fail, P.userId)
       IN  query(p, c, fail, r, IF r.ok THEN Resolve(P, r.val) ELSE Reject(P))

forkChatCall(p) ==
  \E chatId \in ChatIdArgs, msgId \in MessageIdArgs, userId \in Users :
    Call(p, [IdleProc EXCEPT !.pc = "fork_begin", !.op = "forkChat", !.chatId = chatId,
                             !.msgId = msgId, !.userId = userId])

\* originalChat.messages.findIndex(msg => msg.id === messageIdToForkAt), 1-based; 0: none
findIndex(list, id) ==
  IF \E k \in 1..Len(list) : list[k].id = id
  THEN CHOOSE k \in 1..Len(list) :
         list[k].id = id /\ \A j \in 1..(k - 1) : list[j].id # id
  ELSE 0

\* i counts the copied messages up to forkMessageIndex, kept in ret until the return
forkChat(p) ==
  LET P == proc[p] IN
  \E c \in Conns, fail \in BOOLEAN :
    \/ /\ P.pc = "fork_begin"
       /\ LET r == Begin(c, fail)
          IN  query(p, c, fail, r, IF r.ok THEN Goto(P, "fork_chat") ELSE Reject(P))
    \/ /\ P.pc = "fork_chat"
       /\ LET r == SelectChat(c, fail, P.chatId, P.userId)
          IN  query(p, c, fail, r,
                    IF ~r.ok \/ r.val = {} THEN Goto(P, "fork_rollback")
                    ELSE [Goto(P, "fork_messages") EXCEPT !.chat = <<CHOOSE x \in r.val : TRUE>>])
    \/ /\ P.pc = "fork_messages"
       /\ LET r == SelectMessages(c, fail, P.chatId)
          IN  IF ~r.ok THEN query(p, c, fail, r, Goto(P, "fork_rollback"))
              ELSE \E rows \in r.val :
                     query(p, c, fail, r,
                           IF Len(rows) = 0 \/ findIndex(rows, P.msgId) = 0
                           THEN Goto(P, "fork_rollback")
                           ELSE [Goto(P, "fork_insertChat") EXCEPT !.list = rows])
    \/ /\ P.pc = "fork_insertChat"
       /\ LET originalChat == P.chat[1]
              upTo == " (up to message " \o ToString(P.msgId) \o ")"
              newDescription == IF originalChat.description # NullText
                                THEN "Fork of " \o originalChat.description \o upTo
                                ELSE "Forked Chat" \o upTo
              r == InsertChat(c, fail, P.userId, newDescription,
                              Prop(originalChat, "metadata", NullText))
          IN  query(p, c, fail, r,
                    IF ~r.ok THEN Goto(P, "fork_rollback")
                    ELSE [Goto(P, "fork_insertMessage") EXCEPT !.newChatId = r.val, !.i = 1])
    \/ /\ P.pc = "fork_insertMessage"
       /\ LET message == P.list[P.i]
              r == InsertMessage(c, fail, P.newChatId, message.role, message.content,
                                 EmbeddingParam(message), message.created_at)
          IN  query(p, c, fail, r,
                    IF ~r.ok THEN Goto(P, "fork_rollback")
                    ELSE [P EXCEPT !.i = @ + 1,
                                   !.pc = IF P.i < findIndex(P.list, P.msgId)
                                          THEN "fork_insertMessage"
                                          ELSE "fork_snapshotCheck"])
    \/ /\ P.pc = "fork_snapshotCheck"
       /\ LET r == SelectChat(c, fail, P.chatId, P.userId)
          IN  query(p, c, fail, r,
                    IF ~r.ok THEN Goto(P, "fork_rollback")
                    ELSE IF r.val = {} THEN Goto(P, "fork_commit")
                    ELSE Goto(P, "fork_snapshot"))
    \/ /\ P.pc = "fork_snapshot"
       /\ LET r == SelectSnapshot(c, fail, P.chatId)
          IN  IF ~r.ok THEN query(p, c, fail, r, Goto(P, "fork_rollback"))
              ELSE IF r.val = {} THEN query(p, c, fail, r, Goto(P, "fork_commit"))
              ELSE \E s \in r.val :
                     query(p, c, fail, r, [Goto(P, "fork_insertSnapshot") EXCEPT !.snap = <<s>>])
    \/ /\ P.pc = "fork_insertSnapshot"
       /\ LET r == InsertSnapshot(c, fail, P.newChatId, P.snap[1].snapshot_data)
          IN  query(p, c, fail, r,
                    IF r.ok THEN Goto(P, "fork_commit") ELSE Goto(P, "fork_rollback"))
    \/ /\ P.pc = "fork_commit"
       /\ LET r == Commit(c, fail)
          IN  query(p, c, fail, r,
                    IF r.ok THEN Resolve(P, P.newChatId) ELSE Goto(P, "fork_rollback"))
    \/ /\ P.pc = "fork_rollback"
       /\ LET r == Rollback(c, fail)
          IN  query(p, c, fail, r, Reject(P))

\* the chat route's action: the status its response carries for a settled handler
action(P) == IF P.result = "ok" THEN 200 ELSE 500

\* the response is sent; the worker takes the next request (a client it never
\* released stays checked out)
Return(p) ==
  /\ proc[p].pc = "done"
  /\ proc' = [proc EXCEPT ![p] = [IdleProc EXCEPT !.client = proc[p].client]]
  /\ UNCHANGED <<db, conns, clock, calls, failures, repoVars>>

(* --------- my-remix-app/app/services/db.server.ts: query gateway --------- *)
\* the clients checked out of the pool and not yet released
CheckedOut == {proc[p].client : p \in Procs} \ {0}

\* finally { client.release() }
release_onlyOnSuccess(P) == IF P.error = "" THEN [P EXCEPT !.client = 0] ELSE P

release(P) == [P EXCEPT !.client = 0]

query_remixCall(p) ==
  Call(p, [IdleProc EXCEPT !.pc = "gw_connect", !.op = "query_remix"])

\* pool.connect() hands out a client nobody holds (and waits while there is
\* none) or rejects before the try block; client.query resolves or throws, the
\* catch block logs and rethrows, and the finally block releases the client
query_remix(p) ==
  LET P == proc[p] IN
  /\ \/ /\ P.pc = "gw_connect"
        /\ \E c \in Conns \ CheckedOut :
             proc' = [proc EXCEPT ![p] = [P EXCEPT !.pc = "gw_query", !.client = c,
                                                   !.used = @ \cup {c}]]
     \/ /\ P.pc = "gw_connect"
        /\ proc' = [proc EXCEPT ![p] = Reject(P)]
     \/ /\ P.pc = "gw_query"
        /\ \E fail \in BOOLEAN :
             proc' = [proc EXCEPT ![p] =
                        [P EXCEPT !.pc = "gw_finally",
                                  !.error = IF Refused(P.client, fail)
                                            THEN "Database query failed" ELSE ""]]
     \/ /\ P.pc = "gw_finally"
        /\ proc' = [proc EXCEPT ![p] =
                      IF P.error = "" THEN Resolve(release(P), 0) ELSE Reject(release(P))]
  /\ UNCHANGED <<db, conns, clock, calls, failures, repoVars>>

Tick ==
  /\ clock < MaxClock
  /\ clock' = clock + 1
  /\ UNCHANGED <<db, conns, proc, calls, failures, repoVars>>

(***************************************************************************)
(* Part 2: app/lib/.server/db/conversation.server.ts (projects and         *)
(* conversations).  Every handler sends single statements through          *)
(* pool.query without a transaction; a handler is one step.  A handler is  *)
(* an operator from its arguments, and one flag per statement saying       *)
(* whether that statement fails, to the set of its possible outcomes:      *)
(* what it returns and the tables afterwards.                              *)
(***************************************************************************)
RepoUsers == {"alice", "bob"}

\* rows[0] || null, as a sequence of at most one row
FirstRow(S) == IF S = {} THEN << >> ELSE <<CHOOSE r \in S : TRUE>>

\* value || null
OrNull(v) == IF v = Undefined \/ v = "" THEN NullText ELSE v

\* `[${embedding.join(',')}]`, the text form the vector column parses
VectorText(e) == <<"vec", e>>
ParseJson(t) == t[2]

Outcome(result, tables) == [result |-> result, repo |-> tables]

checkProjectOwnership(projectId, userId, fail) ==
  IF fail THEN FALSE
  ELSE LET rows == {q \in repo.projects : q.id = projectId}
       IN  IF rows = {} THEN FALSE
           ELSE (CHOOSE q \in rows : TRUE).user_id = userId

createConversation(userId, projectId, initialMessages, f1, f2) ==
  IF ~checkProjectOwnership(projectId, userId, f1) THEN {Outcome(<< >>, repo)}
  ELSE IF f2 \/ repo.seq.conversations > MaxRows THEN {Outcome(<< >>, repo)}
  ELSE LET row == [id |-> "c" \o ToString(repo.seq.conversations), project_id |-> projectId,
                   messages |-> ParseJson(Stringify(initialMessages)),
                   embedding |-> NoEmbedding, updated_at |-> clock]
       IN  {Outcome(<<row>>, [repo EXCEPT !.conversations = @ \cup {row},
                                          !.seq.conversations = @ + 1])}

getConversationById_anyOwner(conversationId, userId, fail) ==
  IF fail THEN {Outcome(<< >>, repo)}
  ELSE {Outcome(FirstRow({cv \in repo.conversations :
                            /\ cv.id = conversationId
                            /\ \E q \in repo.projects : cv.project_id = q.id}),
                repo)}

getConversationById(conversationId, userId, fail) ==
  IF fail THEN {Outcome(<< >>, repo)}
  ELSE {Outcome(FirstRow({cv \in repo.conversations :
                            /\ cv.id = conversationId
                            /\ \E q \in repo.projects :
                                 cv.project_id = q.id /\ q.user_id = userId}),
                repo)}

getConversationsByProjectId(projectId, userId, f1, f2) ==
  IF ~checkProjectOwnership(projectId, userId, f1) THEN {Outcome(<< >>, repo)}
  ELSE IF f2 THEN {Outcome(<< >>, repo)}
  ELSE {Outcome(rows, repo) :
          rows \in OrderByUpdatedAtDesc({cv \in repo.conversations : cv.project_id = projectId})}

\* UPDATE conversations SET <column> = $1, updated_at = NOW() WHERE id = $2 RETURNING ...
UpdateConversation_append(conversationId, column, value) ==
  LET hit == {cv \in repo.conversations : cv.id = conversationId}
      new == {[cv EXCEPT ![column] = @ \o value, !.updated_at = clock] : cv \in hit}
  IN  Outcome(FirstRow(new),
              [repo EXCEPT !.conversations = (@ \ hit) \cup new])

UpdateConversation(conversationId, column, value) ==
  LET hit == {cv \in repo.conversations : cv.id = conversationId}
      new == {[cv EXCEPT ![column] = value, !.updated_at = clock] : cv \in hit}
  IN  Outcome(FirstRow(new),
              [repo EXCEPT !.conversations = (@ \ hit) \cup new])

updateConversationMessages(conversationId, userId, messages, f1, f2) ==
  LET conversation == (CHOOSE o \in getConversationById(conversationId, userId, f1) : TRUE).result
  IN  IF conversation = << >> THEN {Outcome(<< >>, repo)}
      ELSE IF f2 THEN {Outcome(<< >>, repo)}
      ELSE {UpdateConversation(conversationId, "messages", ParseJson(Stringify(messages)))}

updateConversationEmbedding(conversationId, userId, embedding, f1, f2) ==
  LET conversation == (CHOOSE o \in getConversationById(conversationId, userId, f1) : TRUE).result
  IN  IF conversation = << >> THEN {Outcome(<< >>, repo)}
      ELSE IF f2 THEN {Outcome(<< >>, repo)}
      ELSE {UpdateConversation(conversationId, "embedding", ParseJson(VectorText(embedding)))}

deleteConversation(conversationId, userId, f1, f2) ==
  LET conversation == (CHOOSE o \in getConversationById(conversationId, userId, f1) : TRUE).result
      hit == {cv \in repo.conversations : cv.id = conversationId}
  IN  IF conversation = << >>
      THEN {Outcome([success |-> FALSE,
                     message |-> "Conversation not found or user does not have permission."],
                    repo)}
      ELSE IF f2
      THEN {Outcome([success |-> FALSE, message |-> "Error deleting conversation: error"], repo)}
      ELSE IF hit # {}
      THEN {Outcome([success |-> TRUE, message |-> Undefined],
                    [repo EXCEPT !.conversations = @ \ hit])}
      ELSE {Outcome([success |-> FALSE, message |-> "Conversation not found."], repo)}

\* projects.user_id REFERENCES users(id): an unknown user raises, caught as null
createProject(userId, name, description, codeContent, previewUrl, fail) ==
  IF fail \/ repo.seq.projects > MaxRows THEN {Outcome(<< >>, repo)}
  ELSE IF userId \notin Ids(repo.users) THEN {Outcome(<< >>, repo)}
  ELSE LET row == [id |-> "p" \o ToString(repo.seq.projects), user_id |-> userId,
                   name |-> name, description |-> OrNull(description),
                   code_content |-> OrNull(codeContent), preview_url |-> OrNull(previewUrl),
                   updated_at |-> clock]
       IN  {Outcome(<<row>>, [repo EXCEPT !.projects = @ \cup {row}, !.seq.projects = @ + 1])}

getProjectById(projectId, userId, fail) ==
  IF fail THEN {Outcome(<< >>, repo)}
  ELSE {Outcome(FirstRow({q \in repo.projects : q.id = projectId /\ q.user_id = userId}),
                repo)}

getProjectsByUserId(userId, fail) ==
  IF fail THEN {Outcome(<< >>, repo)}
  ELSE {Outcome(rows, repo) :
          rows \in OrderByUpdatedAtDesc({q \in repo.projects : q.user_id = userId})}

UpdatableColumns == <<"name", "description", "code_content", "preview_url">>

\* the SET clauses built for the supplied fields: column and placeholder number
SetClauses_samePlaceholder(updates) ==
  LET RECURSIVE build(_, _)
      build(k, acc) ==
        IF k > Len(UpdatableColumns) THEN acc
        ELSE IF updates[UpdatableColumns[k]] # Undefined
        THEN build(k + 1, Append(acc, [column |-> UpdatableColumns[k], ph |-> 1]))
        ELSE build(k + 1, acc)
  IN  build(1, << >>)

SetClauses(updates) ==
  LET RECURSIVE build(_, _)
      build(k, acc) ==
        IF k > Len(UpdatableColumns) THEN acc
        ELSE IF updates[UpdatableColumns[k]] # Undefined
        THEN build(k + 1, Append(acc, [column |-> UpdatableColumns[k], ph |-> Len(acc) + 1]))
        ELSE build(k + 1, acc)
  IN  build(1, << >>)

updateProject_idOnly(projectId, userId, updates, fail) ==
  LET setClauses == SetClauses(updates)
      values == [k \in 1..Len(setClauses) |-> updates[setClauses[k].column]]
                  \o <<projectId, userId>>
      valueCount == Len(setClauses) + 1
      hit == {q \in repo.projects : q.id = values[valueCount]}
      assign(q) ==
        [col \in DOMAIN q |->
           IF \E k \in 1..Len(setClauses) : setClauses[k].column = col
           THEN values[setClauses[CHOOSE k \in 1..Len(setClauses) :
                                    setClauses[k].column = col].ph]
           ELSE IF col = "updated_at" THEN clock
           ELSE q[col]]
      new == {assign(q) : q \in hit}
  IN  IF Len(setClauses) = 0 THEN getProjectById(projectId, userId, fail)
      ELSE IF fail THEN {Outcome(<< >>, repo)}
      ELSE {Outcome(FirstRow(new), [repo EXCEPT !.projects = (@ \ hit) \cup new])}

updateProject(projectId, userId, updates, fail) ==
  LET setClauses == SetClauses(updates)
      values == [k \in 1..Len(setClauses) |-> updates[setClauses[k].column]]
                  \o <<projectId, userId>>
      valueCount == Len(setClauses) + 1
      hit == {q \in repo.projects :
                q.id = values[valueCount] /\ q.user_id = values[valueCount + 1]}
      assign(q) ==
        [col \in DOMAIN q |->
           IF \E k \in 1..Len(setClauses) : setClauses[k].column = col
           THEN values[setClauses[CHOOSE k \in 1..Len(setClauses) :
                                    setClauses[k].column = col].ph]
           ELSE IF col = "updated_at" THEN clock
           ELSE q[col]]
      new == {assign(q) : q \in hit}
  IN  IF Len(setClauses) = 0 THEN getProjectById(projectId, userId, fail)
      ELSE IF fail THEN {Outcome(<< >>, repo)}
      ELSE {Outcome(FirstRow(new), [repo EXCEPT !.projects = (@ \ hit) \cup new])}

\* ON DELETE CASCADE from conversations.project_id removes the project's conversations
deleteProject_tellsForbidden(projectId, userId, fail) ==
  LET hit == {q \in repo.projects : q.id = projectId /\ q.user_id = userId}
  IN  IF fail
      THEN {Outcome([success |-> FALSE, message |-> "Error deleting project: error"], repo)}
      ELSE IF hit # {}
      THEN {Outcome([success |-> TRUE, message |-> Undefined],
                    [repo EXCEPT !.projects = @ \ hit,
                                 !.conversations = {cv \in @ : cv.project_id \notin Ids(hit)}])}
      ELSE IF projectId \in Ids(repo.projects)
      THEN {Outcome([success |-> FALSE, message |-> "User does not have permission to delete."],
                    repo)}
      ELSE {Outcome([success |-> FALSE, message |-> "Project not found."], repo)}

deleteProject(projectId, userId, fail) ==
  LET hit == {q \in repo.projects : q.id = projectId /\ q.user_id = userId}
  IN  IF fail
      THEN {Outcome([success |-> FALSE, message |-> "Error deleting project: error"], repo)}
      ELSE IF hit # {}
      THEN {Outcome([success |-> TRUE, message |-> Undefined],
                    [repo EXCEPT !.projects = @ \ hit,
                                 !.conversations = {cv \in @ : cv.project_id \notin Ids(hit)}])}
      ELSE {Outcome([success |-> FALSE,
                     message |-> "Project not found or user does not have permission to delete."],
                    repo)}

(* ------ users: app/lib/.server/db/user.server.ts and my-remix-app ------ *)
\* INSERT INTO users (email, password_hash, name, avatar_url) ... RETURNING ...
\* ok is FALSE with the driver's error code when the statement raises
InsertUser(email, passwordHash, name, avatarUrl, fail) ==
  IF fail THEN [ok |-> FALSE, code |-> "ECONNREFUSED", rows |-> {}, repo |-> repo]
  ELSE IF \E u \in repo.users : u.email = email
  THEN [ok |-> FALSE, code |-> "23505", rows |-> {}, repo |-> repo]
  ELSE LET row == [id |-> "u" \o ToString(repo.seq.users), email |-> email,
                   password_hash |-> passwordHash, name |-> name, avatar_url |-> avatarUrl]
       IN  [ok |-> TRUE, code |-> "", rows |-> {row},
            repo |-> [repo EXCEPT !.users = @ \cup {row}, !.seq.users = @ + 1]]

\* user.server.ts: every error is logged and answered with null
createUser(email, passwordHash, name, avatarUrl, fail) ==
  LET res == InsertUser(email, passwordHash, OrNull(name), OrNull(avatarUrl), fail)
  IN  IF res.ok THEN {Outcome(FirstRow(res.rows), res.repo)}
      ELSE {Outcome(<< >>, repo)}

\* my-remix-app: error code 23505 is rethrown under its own message
Thrown(message) == <<"throws", message>>
IsThrown(result) == Len(result) = 2 /\ result[1] = "throws"

createUser_remix(email, passwordHash, name, avatarUrl, fail) ==
  LET res == InsertUser(email, passwordHash, OrNull(name), OrNull(avatarUrl), fail)
  IN  IF res.ok THEN {Outcome(FirstRow(res.rows), res.repo)}
      ELSE IF res.code = "23505"
      THEN {Outcome(Thrown("User with this email already exists."), repo)}
      ELSE {Outcome(Thrown("Failed to create user due to a database error."), repo)}

getUserByEmail(email, fail) ==
  IF fail THEN {Outcome(<< >>, repo)}
  ELSE {Outcome(FirstRow({u \in repo.users : u.email = email}), repo)}

getUserById(id, fail) ==
  IF fail THEN {Outcome(<< >>, repo)}
  ELSE {Outcome(FirstRow({u \in repo.users : u.id = id}), repo)}

\* DELETE FROM users WHERE id = $1 under init.sql: projects.user_id and
\* conversations.project_id are ON DELETE CASCADE
DeleteUserRow(userId) ==
  LET projects == {q \in repo.projects : q.user_id # userId}
  IN  {Outcome(<< >>,
               [repo EXCEPT !.users = {u \in @ : u.id # userId},
                            !.projects = projects,
                            !.conversations = {cv \in @ : cv.project_id \in Ids(projects)}])}

(* --- similarity lookup: my-remix-app/app/models/conversation.server.ts -- *)
\* a fraction num/den with den > 0, for the thresholds
Frac(num, den) == [num |-> num, den |-> den]

Dot(a, b) ==
  LET RECURSIVE sum(_)
      sum(k) == IF k = 0 THEN 0 ELSE a[k] * b[k] + sum(k - 1)
  IN  sum(Len(a))

\* (embedding <=> $1) < $3: the cosine distance 1 - a.b/(|a||b|) is below t, that
\* is a.b/(|a||b|) > 1 - t; NULL for a missing embedding and NaN for a zero vector
\* do not pass the filter
CosineDistanceBelow_orEqual(embedding, q, t) ==
  LET d == Dot(embedding, q)
      n == Dot(embedding, embedding) * Dot(q, q)
      m == t.den - t.num
  IN  /\ embedding # NoEmbedding /\ n > 0
      /\ d >= 0 /\ d * d * t.den * t.den >= m * m * n

CosineDistanceBelow(embedding, q, t) ==
  LET d == Dot(embedding, q)
      n == Dot(embedding, embedding) * Dot(q, q)
      m == t.den - t.num
  IN  /\ embedding # NoEmbedding /\ n > 0
      /\ d > 0 /\ d * d * t.den * t.den > m * m * n

\* 1 - (embedding <=> $1) AS similarity_score, kept as a.b and (|a||b|)^2
SimilarityScore(embedding, q) ==
  [dot |-> Dot(embedding, q), norm2 |-> Dot(embedding, embedding) * Dot(q, q)]

\* score x >= score y
ScoreAtLeast(x, y) ==
  IF x.dot >= 0 /\ y.dot < 0 THEN TRUE
  ELSE IF x.dot < 0 /\ y.dot >= 0 THEN FALSE
  ELSE IF x.dot >= 0 THEN x.dot * x.dot * y.norm2 >= y.dot * y.dot * x.norm2
  ELSE x.dot * x.dot * y.norm2 <= y.dot * y.dot * x.norm2

\* ORDER BY similarity_score DESC: rows with equal scores come in any order
OrderBySimilarityScoreDesc(S) ==
  {f \in SetToSeqs(S) :
     \A i, j \in 1..Len(f) : i < j => ScoreAtLeast(f[i].similarity_score, f[j].similarity_score)}

\* LIMIT $4
Limit(f, n) == SubSeq(f, 1, IF n < Len(f) THEN n ELSE Len(f))

findSimilarConversations(projectId, queryEmbedding, limit, similarityThreshold, fail) ==
  LET embeddingString == VectorText(queryEmbedding)
      distanceThreshold == Frac(similarityThreshold.den - similarityThreshold.num,
                                similarityThreshold.den)
      rows == {[id |-> cv.id, project_id |-> cv.project_id, messages |-> cv.messages,
                embedding |-> cv.embedding, updated_at |-> cv.updated_at,
                similarity_score |-> SimilarityScore(cv.embedding, ParseJson(embeddingString))]
               : cv \in {x \in repo.conversations :
                           /\ x.project_id = projectId
                           /\ CosineDistanceBelow(x.embedding, ParseJson(embeddingString),
                                                  distanceThreshold)}}
  IN  IF fail THEN {Outcome(Thrown("Failed to find similar conversations."), repo)}
      ELSE {Outcome(Limit(f, limit), repo) : f \in OrderBySimilarityScoreDesc(rows)}

(* ------------------------- repository requests ------------------------ *)
EmailArgs == {u.email : u \in repo.users} \cup {"new@x"}
ProjectIdArgs == Ids(repo.projects) \cup {"p" \o ToString(repo.seq.projects)}
ConversationIdArgs == Ids(repo.conversations) \cup {"c" \o ToString(repo.seq.conversations)}
MessageListArgs == {<<"hi">>, <<"hi", "again">>}
EmbeddingArgs == {<<0, 1>>}
NoUpdates == [col \in {"name", "description", "code_content", "preview_url"} |-> Undefined]
UpdateArgs ==
  {[col \in DOMAIN NoUpdates |-> IF col \in S THEN "new " \o col ELSE Undefined] :
     S \in SUBSET DOMAIN NoUpdates}

Fails(flags) == Cardinality({k \in DOMAIN flags : flags[k]})

NoCall == [op |-> "none", userId |-> "", projectId |-> "", conversationId |-> "",
           email |-> "", updates |-> NoUpdates, messages |-> << >>, embedding |-> << >>,
           limit |-> 0, similarityThreshold |-> Frac(0, 1),
           failed |-> FALSE, result |-> << >>]

\* the requests a workload sends: "similar" looks conversations up by embedding,
\* beside changes of embeddings; "repeat" lists projects again and again
RepoAdmits(call) ==
  CASE workload = "similar" ->
         call.op \in {"findSimilarConversations", "updateConversationEmbedding"}
    [] workload = "repeat" -> call.op = "getProjectsByUserId"
    [] OTHER -> call.op # "findSimilarConversations"

\* a request runs a handler; `last` keeps the call, whether its first statement
\* failed, and what it returned
Answer(call, flags, outcomes) ==
  /\ rcalls > 0
  /\ RepoAdmits(call)
  /\ failures + Fails(flags) <= MaxFailures
  /\ \E o \in outcomes :
       /\ repo' = o.repo
       /\ last' = [call EXCEPT !.failed = flags[1], !.result = o.result]
  /\ rcalls' = rcalls - 1
  /\ failures' = failures + Fails(flags)
  /\ UNCHANGED <<clock, chatVars, workload, hook>>

RepoCall(op, userId, projectId, conversationId, flags, outcomes) ==
  Answer([NoCall EXCEPT !.op = op, !.userId = userId, !.projectId = projectId,
                        !.conversationId = conversationId],
         flags, outcomes)

UserCall(op, email, userId, flags, outcomes) ==
  Answer([NoCall EXCEPT !.op = op, !.email = email, !.userId = userId], flags, outcomes)

createUserCall ==
  \E e \in EmailArgs, f \in BOOLEAN :
    UserCall("createUser", e, "", <<f>>, createUser(e, "hash", "Carol", Undefined, f))

createUser_remixCall ==
  \E e \in EmailArgs, f \in BOOLEAN :
    UserCall("createUser_remix", e, "", <<f>>, createUser_remix(e, "hash", "Carol", Undefined, f))

getUserByEmailCall ==
  \E e \in EmailArgs, f \in BOOLEAN :
    UserCall("getUserByEmail", e, "", <<f>>, getUserByEmail(e, f))

\* an account is removed, as the schema allows
deleteUserRowCall ==
  \E u \in Ids(repo.users) :
    UserCall("deleteUser", "", u, <<FALSE>>, DeleteUserRow(u))

getUserByIdCall ==
  \E u \in Ids(repo.users) \cup {"u" \o ToString(repo.seq.users)}, f \in BOOLEAN :
    UserCall("getUserById", "", u, <<f>>, getUserById(u, f))

createProjectCall ==
  \E u \in RepoUsers, d \in {Undefined, "about"}, f \in BOOLEAN :
    RepoCall("createProject", u, "", "", <<f>>,
             createProject(u, "app", d, Undefined, Undefined, f))

getProjectByIdCall ==
  \E u \in RepoUsers, id \in ProjectIdArgs, f \in BOOLEAN :
    RepoCall("getProjectById", u, id, "", <<f>>, getProjectById(id, u, f))

getProjectsByUserIdCall ==
  \E u \in RepoUsers, f \in BOOLEAN :
    RepoCall("getProjectsByUserId", u, "", "", <<f>>, getProjectsByUserId(u, f))

updateProjectCall ==
  \E u \in RepoUsers, id \in ProjectIdArgs, updates \in UpdateArgs, f \in BOOLEAN :
    Answer([NoCall EXCEPT !.op = "updateProject", !.userId = u, !.projectId = id,
                          !.updates = updates],
           <<f>>, updateProject(id, u, updates, f))

deleteProjectCall ==
  \E u \in RepoUsers, id \in ProjectIdArgs, f \in BOOLEAN :
    RepoCall("deleteProject", u, id, "", <<f>>, deleteProject(id, u, f))

createConversationCall ==
  \E u \in RepoUsers, id \in ProjectIdArgs, m \in MessageListArgs, f1, f2 \in BOOLEAN :
    RepoCall("createConversation", u, id, "", <<f1, f2>>, createConversation(u, id, m, f1, f2))

getConversationByIdCall ==
  \E u \in RepoUsers, id \in ConversationIdArgs, f \in BOOLEAN :
    RepoCall("getConversationById", u, "", id, <<f>>, getConversationById(id, u, f))

getConversationsByProjectIdCall ==
  \E u \in RepoUsers, id \in ProjectIdArgs, f1, f2 \in BOOLEAN :
    RepoCall("getConversationsByProjectId", u, id, "", <<f1, f2>>,
             getConversationsByProjectId(id, u, f1, f2))

updateConversationMessagesCall ==
  \E u \in RepoUsers, id \in ConversationIdArgs, m \in MessageListArgs, f1, f2 \in BOOLEAN :
    Answer([NoCall EXCEPT !.op = "updateConversationMessages", !.userId = u,
                          !.conversationId = id, !.messages = m],
           <<f1, f2>>, updateConversationMessages(id, u, m, f1, f2))

updateConversationEmbeddingCall ==
  \E u \in RepoUsers, id \in ConversationIdArgs, e \in EmbeddingArgs, f1, f2 \in BOOLEAN :
    Answer([NoCall EXCEPT !.op = "updateConversationEmbedding", !.userId = u,
                          !.conversationId = id, !.embedding = e],
           <<f1, f2>>, updateConversationEmbedding(id, u, e, f1, f2))

deleteConversationCall ==
  \E u \in RepoUsers, id \in ConversationIdArgs, f1, f2 \in BOOLEAN :
    RepoCall("deleteConversation", u, "", id, <<f1, f2>>, deleteConversation(id, u, f1, f2))

(* ---- registration: the register action of the API route and of ------- *)
(* ---- my-remix-app/app/routes/auth/register.tsx ------------------------ *)
\* the response: its status and its error message ("" for none)
Respond(P, status, error) ==
  [P EXCEPT !.pc = "done", !.result = IF status < 400 THEN "ok" ELSE "rejected",
            !.ret = status, !.error = error]

\* a step of a registration: one awaited repository call and what follows it
Registers(p, outcomes, np(_)) ==
  /\ \E o \in outcomes :
       /\ repo' = o.repo
       /\ proc' = [proc EXCEPT ![p] = np(o.result)]
  /\ UNCHANGED <<db, conns, clock, calls, failures, last, rcalls, workload, hook>>

registerCall(p) ==
  \E email \in EmailArgs, op \in RegisterOps :
    Call(p, [IdleProc EXCEPT !.pc = "reg_check", !.op = op, !.email = email])

\* API route: 409 from the pre-check, 500 "Failed to create user" when createUser
\* answers null
register(p) ==
  LET P == proc[p]
      checked(existingUser) ==
        IF existingUser # << >> THEN Respond(P, 409, "User with this email already exists")
        ELSE Goto(P, "reg_create")
      created(newUser) ==
        IF newUser = << >> THEN Respond(P, 500, "Failed to create user")
        ELSE Respond(P, 200, "")
  IN  /\ P.op = "register"
      /\ \/ /\ P.pc = "reg_check"
            /\ Registers(p, getUserByEmail(P.email, FALSE), checked)
         \/ /\ P.pc = "reg_create"
            /\ Registers(p, createUser(P.email, "hash", "Carol", Undefined, FALSE), created)

\* my-remix-app: 400 from the pre-check, a redirect on success, and 500 with the
\* thrown error's message from the catch block
register_remix(p) ==
  LET P == proc[p]
      checked(existingUser) ==
        IF existingUser # << >> THEN Respond(P, 400, "User with this email already exists.")
        ELSE Goto(P, "reg_create")
      created(newUser) ==
        IF newUser = << >> THEN Respond(P, 500, "Failed to create user. Please try again.")
        ELSE IF IsThrown(newUser) THEN Respond(P, 500, newUser[2])
        ELSE Respond(P, 302, "")
  IN  /\ P.op = "register_remix"
      /\ \/ /\ P.pc = "reg_check"
            /\ Registers(p, getUserByEmail(P.email, FALSE), checked)
         \/ /\ P.pc = "reg_create"
            /\ Registers(p, createUser_remix(P.email, "hash", "Carol", Undefined, FALSE),
                         created)

(***************************************************************************)
(* Part 3: the client hook app/lib/persistence/useChatHistory.ts and the   *)
(* chat route that serves it.  hook is the hook's React state for chat 1   *)
(* of user 1: the loader data it last processed, and the message lists it  *)
(* computed from them.                                                     *)
(***************************************************************************)
NoHook ==
  [ready |-> FALSE, loaded |-> << >>, chatIndex |-> 0, rewindId |-> 0,
   messages |-> << >>, archivedMessages |-> << >>]

\* Array.prototype.findIndex: 0-based, -1 when no element matches
findIndex0(list, id) == findIndex(list, id) - 1

\* Array.prototype.slice(start, end) for 0 <= start, 0-based, end exclusive
slice(list, start, end) ==
  SubSeq(list, start + 1, IF end < Len(list) THEN end ELSE Len(list))

\* the loaderData effect: from the loaded messages, the snapshot's chatIndex
\* (0: no snapshot or no chatIndex) and the rewindTo parameter (0: none) to the
\* active and the archived messages
useChatHistory(loadedMessages, chatIndex, rewindId) ==
  LET snapshotIndexInLoadedMessages == findIndex0(loadedMessages, chatIndex)
      endingIdx == IF rewindId # 0 THEN findIndex0(loadedMessages, rewindId) + 1
                   ELSE Len(loadedMessages)
      s1 == IF snapshotIndexInLoadedMessages < endingIdx
            THEN snapshotIndexInLoadedMessages ELSE -1
      startingIdx ==
        IF /\ snapshotIndexInLoadedMessages > 0
           /\ loadedMessages[snapshotIndexInLoadedMessages + 1].id = rewindId
        THEN -1 ELSE s1
  IN  IF chatIndex # 0 /\ snapshotIndexInLoadedMessages # -1 /\ startingIdx >= 0
      THEN [messages |-> slice(loadedMessages, startingIdx + 1, endingIdx),
            archivedMessages |-> slice(loadedMessages, 0, startingIdx + 1)]
      ELSE [messages |-> loadedMessages, archivedMessages |-> << >>]

\* the chat route's loader reads the chat's messages and its snapshot; the page
\* renders and the effect runs.  chatIndex is what the stored snapshot names: a
\* loaded message or one that is not loaded; rewindTo comes from the URL
loader ==
  /\ workload = "history" /\ ~hook.ready
  /\ \E rows \in SelectMessages(1, FALSE, 1).val :
       LET loadedMessages ==
             [k \in 1..Len(rows) |->
                [id |-> rows[k].id, role |-> rows[k].role, content |-> rows[k].content]]
           ids == {loadedMessages[k].id : k \in 1..Len(loadedMessages)} \cup {db.seq.messages}
       IN  \E chatIndex \in (IF SelectSnapshot(1, FALSE, 1).val = {} THEN {0} ELSE ids),
              rewindId \in {0} \cup ids :
             hook' = [ready |-> TRUE, loaded |-> loadedMessages, chatIndex |-> chatIndex,
                      rewindId |-> rewindId]
                     @@ useChatHistory(loadedMessages, chatIndex, rewindId)
  /\ UNCHANGED <<clock, chatVars, failures, repo, last, rcalls, workload>>

\* what the chat UI hands to storeMessageHistory on its k-th last call: a new
\* message, alone or followed by one annotated no-store
NewMessageArgs(k) ==
  LET more == [id |-> 10 + k, role |-> "user", content |-> "more" \o ToString(k),
               noStore |-> FALSE]
      note == [id |-> 20 + k, role |-> "assistant", content |-> "note" \o ToString(k),
               noStore |-> TRUE]
  IN  {<<more>>, <<more, note>>, <<note>>}

\* storeMessageHistory submits archivedMessages followed by the messages to save
\* under intent storeMessages; the route's action hands them to saveChat with the
\* chat's id, which runs as a request of its own; the hook appends them to its
\* messages at once
storeMessageHistory(p) ==
  /\ workload = "history" /\ hook.ready
  /\ proc[p].pc = "idle" /\ calls > 0
  /\ \A q \in Procs : proc[q].pc \in {"idle", "done"}
  /\ \A q \in 1..(p - 1) : proc[q].pc # "idle"
  /\ \E newMessages \in NewMessageArgs(calls) :
       LET messagesToSave == SelectSeq(newMessages, LAMBDA m : ~m.noStore)
           payload == hook.archivedMessages \o messagesToSave
       IN  IF Len(messagesToSave) = 0
           THEN UNCHANGED <<proc, hook>>
           ELSE /\ proc' = [proc EXCEPT ![p] =
                              [IdleProc EXCEPT
                                 !.pc = "save_begin", !.op = "saveChatMessages",
                                 !.userId = 1, !.chatId = 1,
                                 !.messages = [k \in 1..Len(payload) |->
                                                 [role |-> payload[k].role,
                                                  content |-> payload[k].content]]]]
                /\ hook' = [hook EXCEPT !.messages = @ \o messagesToSave]
  /\ calls' = calls - 1
  /\ UNCHANGED <<db, conns, clock, failures, repo, last, rcalls, workload>>

QueryEmbeddingArgs == {<<1, 0>>, <<1, 1>>, <<0, 1>>}
LimitArgs == {1, 2, 5}
ThresholdArgs == {Frac(0, 1), Frac(1, 2), Frac(9, 10)}

findSimilarConversationsCall ==
  \E id \in ProjectIdArgs, q \in QueryEmbeddingArgs, limit \in LimitArgs,
     th \in ThresholdArgs, f \in BOOLEAN :
    Answer([NoCall EXCEPT !.op = "findSimilarConversations", !.projectId = id,
                          !.embedding = q, !.limit = limit, !.similarityThreshold = th],
           <<f>>, findSimilarConversations(id, q, limit, th, f))

(* ------------------------------- Init --------------------------------- *)
SeedRepo ==
  [users |->
     {[id |-> "alice", email |-> "alice@x", password_hash |-> "hash", name |-> "Alice",
       avatar_url |-> NullText],
      [id |-> "bob", email |-> "bob@x", password_hash |-> "hash", name |-> NullText,
       avatar_url |-> NullText]},
   projects |->
     {[id |-> "p1", user_id |-> "alice", name |-> "app", description |-> NullText,
       code_content |-> NullText, preview_url |-> NullText, updated_at |-> 1],
      [id |-> "p2", user_id |-> "bob", name |-> "app", description |-> "about",
       code_content |-> NullText, preview_url |-> NullText, updated_at |-> 1]},
   conversations |->
     {[id |-> "c1", project_id |-> "p1", messages |-> <<"hi">>,
       embedding |-> NoEmbedding, updated_at |-> 1],
      [id |-> "c2", project_id |-> "p2", messages |-> <<"yo">>,
       embedding |-> <<1, 0>>, updated_at |-> 1]},
   seq |-> [users |-> 3, projects |-> 3, conversations |-> 3]]

\* conversations with embeddings at several angles, one without, in two projects
SeedSimilar ==
  [SeedRepo EXCEPT
     !.conversations =
        {[id |-> "c1", project_id |-> "p1", messages |-> <<"hi">>,
          embedding |-> <<1, 0>>, updated_at |-> 1],
         [id |-> "c2", project_id |-> "p2", messages |-> <<"yo">>,
          embedding |-> <<1, 0>>, updated_at |-> 1],
         [id |-> "c3", project_id |-> "p1", messages |-> <<"a">>,
          embedding |-> <<2, 2>>, updated_at |-> 1],
         [id |-> "c4", project_id |-> "p1", messages |-> <<"b">>,
          embedding |-> <<1, 3>>, updated_at |-> 1],
         [id |-> "c5", project_id |-> "p1", messages |-> <<"c">>,
          embedding |-> NoEmbedding, updated_at |-> 1]},
     !.seq.conversations = 6]

\* a user with two projects last updated at the same time
SeedTies ==
  [SeedRepo EXCEPT
     !.projects = @ \cup
        {[id |-> "p3", user_id |-> "alice", name |-> "site", description |-> NullText,
          code_content |-> NullText, preview_url |-> NullText, updated_at |-> 1]},
     !.seq.projects = 4]

SeedChats(d, m) ==
  {[id |-> 1, user_id |-> 1, description |-> d, metadata |-> m, updated_at |-> 1],
   [id |-> 2, user_id |-> 2, description |-> "theirs", metadata |-> NullText, updated_at |-> 1]}

SeedMessages(t) ==
  {[id |-> 1, chat_id |-> 1, role |-> "user", content |-> "hi",
    embedding |-> NoEmbedding, created_at |-> 1],
   [id |-> 2, chat_id |-> 1, role |-> "assistant", content |-> "hello",
    embedding |-> <<1, 0>>, created_at |-> t],
   [id |-> 3, chat_id |-> 2, role |-> "user", content |-> "secret",
    embedding |-> NoEmbedding, created_at |-> 1]}

SeedSnapshots(n) ==
  IF n THEN {[id |-> 1, chat_id |-> 1, snapshot_data |-> "files", created_at |-> 2]} ELSE {}

SeedDb(d, m, t, n) ==
  [users |-> {[id |-> u] : u \in Users}, chats |-> SeedChats(d, m), messages |-> SeedMessages(t), snapshots |-> SeedSnapshots(n),
   seq |-> [chats |-> 3, messages |-> 4, snapshots |-> 2]]

\* the tables hold earlier requests' rows; the workload is chat requests,
\* repository requests, a lineage operation with reads beside it, similarity
\* searches, repeated project listings, registrations, the client's history
\* hook, calls of my-remix-app's query gateway, or a fork beside another
\* request (no ticks and no failed statements in "observe", "history", "race")
Init ==
  /\ \/ /\ \E t \in {1, 2}, n \in BOOLEAN :
              db = SeedDb(IF n = (t = 1) THEN "plan" ELSE NullText, "meta", t, n)
        /\ calls = MaxCalls
        /\ rcalls = 0
        /\ workload = "chat"
     \/ /\ db = SeedDb("plan", "meta", 1, TRUE)
        /\ calls = 0
        /\ rcalls = MaxRepoCalls
        /\ workload = "repo"
     \/ /\ db = SeedDb("plan", "meta", 1, FALSE)
        /\ calls = ObserveCalls
        /\ rcalls = 0
        /\ workload = "observe"
     \/ /\ db = SeedDb("plan", "meta", 1, FALSE)
        /\ calls = 0
        /\ rcalls = MaxRepoCalls
        /\ workload = "similar"
     \/ /\ db = SeedDb("plan", "meta", 1, FALSE)
        /\ calls = 0
        /\ rcalls = MaxRepoCalls
        /\ workload = "repeat"
     \/ /\ db = SeedDb("plan", "meta", 1, FALSE)
        /\ calls = RegisterCalls
        /\ rcalls = 0
        /\ workload = "register"
     \/ /\ \E n \in BOOLEAN : db = SeedDb("plan", "meta", 2, n)
        /\ calls = HistoryCalls
        /\ rcalls = 0
        /\ workload = "history"
     \/ /\ db = SeedDb("plan", "meta", 1, FALSE)
        /\ calls = GatewayCalls
        /\ rcalls = 0
        /\ workload = "gateway"
     \/ /\ db = SeedDb("plan", "meta", 2, FALSE)
        /\ calls = RaceCalls
        /\ rcalls = 0
        /\ workload = "race"
  /\ conns = [c \in Conns |-> IdleConn]
  /\ clock = IF workload \in {"observe", "history", "race"} THEN MaxClock ELSE 2
  /\ proc = [p \in Procs |-> IdleProc]
  /\ failures = IF workload \in {"observe", "history", "race"} THEN MaxFailures ELSE 0
  /\ repo = CASE workload = "similar" -> SeedSimilar
            [] workload = "repeat" -> SeedTies
            [] OTHER -> SeedRepo
  /\ last = NoCall
  /\ hook = NoHook

Next ==
  \/ \E p \in Procs : duplicateChatCall(p)
  \/ \E p \in Procs : duplicateChat(p)
  \/ \E p \in Procs : deleteChatByIdCall(p)
  \/ \E p \in Procs : deleteChatById(p)
  \/ \E p \in Procs : deleteAllChatDataForUserCall(p)
  \/ \E p \in Procs : deleteAllChatDataForUser(p)
  \/ \E p \in Procs : deleteUserCall(p)
  \/ \E p \in Procs : deleteUser(p)
  \/ \E p \in Procs : forkChatCall(p)
  \/ \E p \in Procs : forkChat(p)
  \/ \E p \in Procs : saveChatMessagesCall(p)
  \/ \E p \in Procs : saveChatMessages(p)
  \/ \E p \in Procs : createChatFromMessagesCall(p)
  \/ \E p \in Procs : getChatDetailsCall(p)
  \/ \E p \in Procs : getChatDetails(p)
  \/ \E p \in Procs : getAllChatsCall(p)
  \/ \E p \in Procs : getAllChats(p)
  \/ \E p \in Procs : getSnapshotCall(p)
  \/ \E p \in Procs : getSnapshot(p)
  \/ \E p \in Procs : setSnapshotCall(p)
  \/ \E p \in Procs : setSnapshot(p)
  \/ \E p \in Procs : deleteSnapshotCall(p)
  \/ \E p \in Procs : deleteSnapshot(p)
  \/ \E p \in Procs : registerCall(p)
  \/ \E p \in Procs : register(p)
  \/ \E p \in Procs : register_remix(p)
  \/ \E p \in Procs : query_remixCall(p)
  \/ \E p \in Procs : query_remix(p)
  \/ \E p \in Procs : Return(p)
  \/ createProjectCall
  \/ getProjectByIdCall
  \/ getProjectsByUserIdCall
  \/ updateProjectCall
  \/ deleteProjectCall
  \/ createConversationCall
  \/ getConversationByIdCall
  \/ getConversationsByProjectIdCall
  \/ updateConversationMessagesCall
  \/ updateConversationEmbeddingCall
  \/ deleteConversationCall
  \/ createUserCall
  \/ createUser_remixCall
  \/ getUserByEmailCall
  \/ getUserByIdCall
  \/ deleteUserRowCall
  \/ findSimilarConversationsCall
  \/ loader
  \/ \E p \in Procs : storeMessageHistory(p)
  \/ Tick

Spec == Init /\ [][Next]_vars

(* ------------------------- settled requests --------------------------- *)
Settled(p, op) == proc[p].op = op /\ proc[p].pc = "done"
Succeeded(p, op) == Settled(p, op) /\ proc[p].result = "ok"
Rejected(p, op) == Settled(p, op) /\ proc[p].result = "rejected"

\* rows a connection still holds in an open transaction
PendingChats == UNION {conns[c].chats : c \in Conns}
PendingMessages == UNION {conns[c].messages : c \in Conns}

\* a chat's stored messages in insertion order (the SERIAL id), as role/content/embedding
SeqById(S) ==
  CHOOSE f \in SetToSeqs(S) : \A i, j \in 1..Len(f) : i < j => f[i].id < f[j].id
Body(m) == [role |-> m.role, content |-> m.content]
FullBody(m) == [role |-> m.role, content |-> m.content, embedding |-> m.embedding]
StoredMessages(chatId) == SeqById({m \in db.messages : m.chat_id = chatId})

\* what getChatDetails(chatId, userId) can return when its two statements run on
\* connections c1 and c2 in the current state: the messages of each possible result
ReadBack(c1, c2, chatId, userId) ==
  IF SelectChat(c1, FALSE, chatId, userId).ok /\ SelectChat(c1, FALSE, chatId, userId).val # {}
     /\ SelectMessages(c2, FALSE, chatId).ok
  THEN SelectMessages(c2, FALSE, chatId).val
  ELSE {}

(* C1: once duplicateChat has rejected, the database holds no chat, message or
   snapshot row the call created (no orphan chat). *)
C1_DuplicateAllOrNothing ==
  \A p \in Procs :
    (Rejected(p, "duplicateChat") /\ proc[p].newChatId # 0) =>
      /\ proc[p].newChatId \notin Ids(db.chats)
      /\ \A m \in db.messages : m.chat_id # proc[p].newChatId
      /\ \A s \in db.snapshots : s.chat_id # proc[p].newChatId

(* C2: BEGIN, every data statement and the closing COMMIT or ROLLBACK of one
   invocation of a transactional operation run on the same pooled connection. *)
C2_OneConnectionPerTransaction ==
  \A p \in Procs :
    proc[p].op \in {"duplicateChat", "forkChat", "saveChatMessages"} =>
      Cardinality(proc[p].used) <= 1

(* C3: a step of saveChatMessages(userId, messages, chatId) whose chatId names a
   chat of another user inserts no message row into that chat and leaves the chat
   row unchanged. *)
C3_SaveRevalidatesOwnership ==
  [][\A p \in Procs :
       (/\ proc[p].op = "saveChatMessages"
        /\ proc'[p] # proc[p]
        /\ \E ch \in db.chats : ch.id = proc[p].chatId /\ ch.user_id # proc[p].userId)
       => /\ {m \in db'.messages \cup PendingMessages' : m.chat_id = proc[p].chatId}
               = {m \in db.messages \cup PendingMessages : m.chat_id = proc[p].chatId}
          /\ {ch \in db'.chats \cup PendingChats' : ch.id = proc[p].chatId}
               = {ch \in db.chats \cup PendingChats : ch.id = proc[p].chatId}]_vars

\* the original messages from the first up to and including the one with id msgId
OriginalPrefix(chatId, msgId) ==
  LET all == StoredMessages(chatId)
  IN  SubSeq(all, 1, findIndex(all, msgId))

(* C4: after forkChat(C, msgId, U) has succeeded, getChatDetails of the new chat
   returns exactly the original messages up to and including msgId, in the
   original order, also when original messages share a created_at. *)
C4_ForkCopiesPrefix ==
  \A p \in Procs :
    Succeeded(p, "forkChat") =>
      \A c1, c2 \in Conns :
        /\ ReadBack(c1, c2, proc[p].ret, proc[p].userId) # {}
        /\ \A rows \in ReadBack(c1, c2, proc[p].ret, proc[p].userId) :
             [k \in 1..Len(rows) |-> Body(rows[k])]
               = [k \in 1..Len(OriginalPrefix(proc[p].chatId, proc[p].msgId)) |->
                    Body(OriginalPrefix(proc[p].chatId, proc[p].msgId)[k])]

(* C5: forkChat with a messageIdToForkAt that is not the id of a message of the
   original chat fails with a client error and creates no row. *)
C5_ForkUnknownMessageIsClientError ==
  \A p \in Procs :
    (/\ Settled(p, "forkChat")
     /\ \E ch \in db.chats : ch.id = proc[p].chatId /\ ch.user_id = proc[p].userId
     /\ \A m \in db.messages : m.chat_id = proc[p].chatId => m.id # proc[p].msgId)
    => /\ proc[p].result = "rejected"
       /\ proc[p].newChatId = 0
       /\ action(proc[p]) \in 400..499

(* C6: duplicateChat(C, U) returns an id different from C and the new chat's
   message sequence equals C's element-wise in role, content and embedding. *)
C6_DuplicateCopiesMessages ==
  \A p \in Procs :
    Succeeded(p, "duplicateChat") =>
      /\ proc[p].ret # proc[p].chatId
      /\ [k \in 1..Len(StoredMessages(proc[p].ret)) |-> FullBody(StoredMessages(proc[p].ret)[k])]
           = [k \in 1..Len(StoredMessages(proc[p].chatId)) |->
                FullBody(StoredMessages(proc[p].chatId)[k])]

(* C7: the chat row created by duplicateChat has description "Copy of " +
   original.description (or the default) and the original chat's metadata. *)
C7_DuplicateCopiesDescriptionAndMetadata ==
  \A p \in Procs :
    Succeeded(p, "duplicateChat") =>
      \A orig \in {ch \in db.chats : ch.id = proc[p].chatId} :
        \A new \in {ch \in db.chats \cup PendingChats : ch.id = proc[p].ret} :
          /\ new.description = IF orig.description # NullText
                               THEN "Copy of " \o orig.description ELSE "Copied Chat"
          /\ new.metadata = orig.metadata
Owner(projectId) == {q.user_id : q \in {x \in repo.projects : x.id = projectId}}
ConversationOwner(conversationId) ==
  UNION {Owner(cv.project_id) : cv \in {x \in repo.conversations : x.id = conversationId}}
Foreign(owners, userId) == owners # {} /\ userId \notin owners

C8_Reads ==
  /\ (last.op = "getProjectById" /\ Foreign(Owner(last.projectId), last.userId))
       => last.result = << >>
  /\ last.op = "getProjectsByUserId"
       => \A k \in 1..Len(last.result) : last.result[k].user_id = last.userId

C8_Writes ==
  \A P \in repo.projects :
    (/\ last'.op \in {"updateProject", "deleteProject"}
     /\ last'.projectId = P.id
     /\ last'.userId # P.user_id)
    => P \in repo'.projects

(* C8: for a project P of user U and a user V other than U, getProjectById(P.id, V)
   returns null, getProjectsByUserId(V) does not contain P, and updateProject and
   deleteProject called with V leave P unchanged. *)
C8_ProjectsAreOwnerScoped == []C8_Reads /\ [][C8_Writes]_vars

C8_Witness ==
  /\ last.op = "updateProject"
  /\ Foreign(Owner(last.projectId), last.userId)
  /\ last.result = << >>

C9_Reads ==
  /\ (last.op = "getConversationById"
      /\ Foreign(ConversationOwner(last.conversationId), last.userId))
       => last.result = << >>
  /\ (last.op = "getConversationsByProjectId" /\ Foreign(Owner(last.projectId), last.userId))
       => last.result = << >>

C9_Writes ==
  /\ \A cv \in repo.conversations :
       (/\ last'.op \in {"updateConversationMessages", "updateConversationEmbedding",
                         "deleteConversation"}
        /\ last'.conversationId = cv.id
        /\ Foreign(ConversationOwner(cv.id), last'.userId))
       => cv \in repo'.conversations
  /\ (last'.op = "createConversation" /\ Foreign(Owner(last'.projectId), last'.userId))
       => last'.result = << >> /\ repo'.conversations = repo.conversations

(* C9: for a conversation C under a project of user A and a user B other than A,
   getConversationById(C, B) returns null, getConversationsByProjectId returns an
   empty list, createConversation returns null and inserts nothing (also when the
   ownership lookup errors), and updateConversationMessages,
   updateConversationEmbedding and deleteConversation called with B leave C
   unchanged. *)
C9_ConversationsAreOwnerScoped == []C9_Reads /\ [][C9_Writes]_vars

C9_Witness ==
  /\ last.op = "updateConversationMessages"
  /\ Foreign(ConversationOwner(last.conversationId), last.userId)
  /\ last.result = << >>

\* what getChatDetails / getSnapshot return when their statements run on c1 and c2
getChatDetailsResults(c1, f1, c2, f2, chatId, userId) ==
  LET r1 == SelectChat(c1, f1, chatId, userId)
      r2 == SelectMessages(c2, f2, chatId)
  IN  IF ~r1.ok THEN {[kind |-> "throws"]}
      ELSE IF r1.val = {} THEN {[kind |-> "null"]}
      ELSE IF ~r2.ok THEN {[kind |-> "throws"]}
      ELSE {[kind |-> "chat", chat |-> x, messages |-> rows] : x \in r1.val, rows \in r2.val}

getSnapshotResults(c1, f1, c2, f2, chatId, userId) ==
  LET r1 == SelectChat(c1, f1, chatId, userId)
      r2 == SelectSnapshot(c2, f2, chatId)
  IN  IF ~r1.ok THEN {[kind |-> "throws"]}
      ELSE IF r1.val = {} THEN {[kind |-> "null"]}
      ELSE IF ~r2.ok THEN {[kind |-> "throws"]}
      ELSE IF r2.val = {} THEN {[kind |-> "null"]}
      ELSE {[kind |-> "snapshot", snapshot |-> x] : x \in r2.val}

Results(outcomes) == {o.result : o \in outcomes}

\* ids no row has: the next ones the sequences would hand out
AbsentProjectIds == {"p" \o ToString(repo.seq.projects)}
AbsentConversationIds == {"c" \o ToString(repo.seq.conversations)}
AbsentChatIds == {db.seq.chats}

C10_Repository ==
  \A V \in RepoUsers, f1 \in BOOLEAN :
    /\ \A absent \in AbsentProjectIds :
         \A foreign \in {q.id : q \in {x \in repo.projects : x.user_id # V}} :
           /\ Results(getProjectById(absent, V, f1)) = Results(getProjectById(foreign, V, f1))
           /\ Results(deleteProject(absent, V, f1)) = Results(deleteProject(foreign, V, f1))
           /\ \A updates \in UpdateArgs :
                Results(updateProject(absent, V, updates, f1))
                  = Results(updateProject(foreign, V, updates, f1))
    /\ \A absent \in AbsentConversationIds :
         \A foreign \in {cv.id : cv \in {x \in repo.conversations :
                                           Foreign(ConversationOwner(x.id), V)}} :
           /\ Results(getConversationById(absent, V, f1))
                = Results(getConversationById(foreign, V, f1))
           /\ \A f2 \in BOOLEAN :
                Results(deleteConversation(absent, V, f1, f2))
                  = Results(deleteConversation(foreign, V, f1, f2))

C10_Chats ==
  \A V \in Users, c1, c2 \in Conns, f1, f2 \in BOOLEAN :
    \A absent \in AbsentChatIds :
      \A foreign \in {ch.id : ch \in {x \in db.chats \cup PendingChats : x.user_id # V}} :
        /\ getChatDetailsResults(c1, f1, c2, f2, absent, V)
             = getChatDetailsResults(c1, f1, c2, f2, foreign, V)
        /\ getSnapshotResults(c1, f1, c2, f2, absent, V)
             = getSnapshotResults(c1, f1, c2, f2, foreign, V)

(* C10: for each ownership-scoped operation (getProjectById, updateProject,
   deleteProject, getConversationById, deleteConversation, getChatDetails,
   getSnapshot), what user V gets for an id that does not exist is identical to
   what V gets for an id that exists but belongs to another user. *)
C10_NotFoundEqualsNotOwned == C10_Repository /\ C10_Chats

C10_Witness ==
  /\ last.op = "deleteProject"
  /\ Foreign(Owner(last.projectId), last.userId)
  /\ ~last.result.success
\* the arguments fail the handler's validation
Invalid(P) ==
  \/ P.op = "saveChatMessages" /\ (P.userId = 0 \/ Len(P.messages) = 0)
  \/ /\ P.op = "createChatFromMessages"
     /\ (P.userId = 0 \/ P.description = Undefined \/ Len(P.messages) = 0)

(* C11: when saveChatMessages is called with a missing userId or an empty
   messages list, or createChatFromMessages with a missing description, the call
   rejects without having sent any statement (BEGIN and ROLLBACK included) to the
   database. *)
C11_ValidationBeforeAnyQuery ==
  \A p \in Procs :
    (proc[p].pc = "done" /\ Invalid(proc[p])) =>
      proc[p].result = "rejected" /\ proc[p].used = {}
(* C12: a getChatDetails or getAllChats call of the same user that runs beside a
   saveChatMessages (create path), duplicateChat or forkChat invocation, or after
   that invocation failed, never returns the invocation's new chat with fewer
   messages than the invocation commits, nor a chat of an invocation that ends
   rejected. *)
C12_NoPartialWriteObserved ==
  \A p, q \in Procs :
    (/\ p # q
     /\ proc[p].pc = "done" /\ proc[p].op \in LineageOps /\ proc[p].newChatId # 0
     /\ proc[p].op = "saveChatMessages" => proc[p].chatId = 0
     /\ proc[q].pc = "done" /\ proc[q].result = "ok" /\ proc[q].userId = proc[p].userId)
    => /\ (proc[q].op = "getChatDetails" /\ proc[q].ret = proc[p].newChatId)
            => /\ proc[p].result = "ok"
               /\ Len(proc[q].list)
                    >= Cardinality({m \in db.messages : m.chat_id = proc[p].newChatId})
       /\ (proc[q].op = "getAllChats"
           /\ \E k \in 1..Len(proc[q].list) : proc[q].list[k].id = proc[p].newChatId)
            => proc[p].result = "ok"
\* the handlers that answer with a row or null, or with a list of rows
RowOps ==
  {"createProject", "getProjectById", "getProjectsByUserId", "updateProject",
   "createConversation", "getConversationById", "getConversationsByProjectId",
   "updateConversationMessages", "updateConversationEmbedding",
   "createUser", "getUserByEmail", "getUserById"}

(* C13: a repository operation whose database statement suffers an
   infrastructure failure rejects; it never answers the caller with a normal
   null or empty-list result. *)
C13_InfrastructureFailureRethrown ==
  (last.failed /\ last.op \in RowOps) => last.result # << >>

(* C14: createUser with an email that is already registered fails, with an
   outcome that differs from the outcome of every other failure of createUser,
   and adds no user row. *)
C14_CreateUserConflictDistinguishable ==
  \A u \in repo.users :
    \A o \in createUser(u.email, "hash", "Carol", Undefined, FALSE) :
      /\ o.repo.users = repo.users
      /\ o.result \notin {<<x>> : x \in o.repo.users}
      /\ \A e \in EmailArgs :
           \A other \in createUser(e, "hash", "Carol", Undefined, TRUE) :
             other.result # o.result
\* the step is a call of the repository handler op
Called(op) == rcalls' < rcalls /\ last'.op = op

C15_Frame ==
  (Called("updateProject") /\ ~last'.failed) =>
    LET U == last'.updates
        hit == {q \in repo.projects : q.id = last'.projectId /\ q.user_id = last'.userId}
    IN  /\ repo'.users = repo.users /\ repo'.conversations = repo.conversations
        /\ Ids(repo'.projects) = Ids(repo.projects)
        /\ \A q \in repo.projects \ hit : q \in repo'.projects
        /\ hit = {} => last'.result = << >>
        /\ U = NoUpdates => repo' = repo
        /\ \A q \in hit :
             \E n \in repo'.projects :
               /\ last'.result = <<n>>
               /\ n.id = q.id /\ n.user_id = q.user_id
               /\ \A k \in 1..Len(UpdatableColumns) :
                    n[UpdatableColumns[k]] = IF U[UpdatableColumns[k]] # Undefined
                                             THEN U[UpdatableColumns[k]]
                                             ELSE q[UpdatableColumns[k]]
               /\ n.updated_at = IF U = NoUpdates THEN q.updated_at ELSE clock

(* C15: updateProject changes exactly the supplied fields of the caller's project
   (plus updated_at) and nothing else, for every subset of name, description,
   code_content and preview_url; with no field it writes nothing and returns what
   getProjectById returns; it returns null when no row exists under that owner. *)
C15_UpdateProjectChangesSuppliedFields == [][C15_Frame]_vars

C15_Witness ==
  /\ last.op = "updateProject" /\ ~last.failed
  /\ last.updates["name"] # Undefined /\ last.updates["preview_url"] # Undefined
  /\ last.updates["description"] = Undefined
  /\ last.result # << >>
  /\ last.result[1].preview_url = last.updates["preview_url"]
\* the call replaced `column` of its conversation by `value` and nothing else
Replaced(column, value, kept) ==
  \E old \in repo.conversations, new \in repo'.conversations :
    /\ old.id = last'.conversationId /\ new.id = old.id
    /\ new[column] = value
    /\ new[kept] = old[kept] /\ new.project_id = old.project_id
    /\ last'.result = <<new>>
    /\ repo'.conversations \ {new} = repo.conversations \ {old}
    /\ repo'.projects = repo.projects /\ repo'.users = repo.users

C16_Frame ==
  /\ (Called("updateConversationMessages") /\ last'.result # << >>)
       => Replaced("messages", last'.messages, "embedding")
  /\ (Called("updateConversationEmbedding") /\ last'.result # << >>)
       => Replaced("embedding", last'.embedding, "messages")

(* C16: a successful updateConversationMessages(id, U, M) leaves the stored
   messages equal to M (replace, not append) and the embedding unchanged; a
   successful updateConversationEmbedding(id, U, E) replaces the embedding and
   leaves the messages unchanged; neither changes another conversation. *)
C16_UpdateConversationReplaces == [][C16_Frame]_vars

C16_Witness ==
  /\ last.op = "updateConversationMessages" /\ last.result # << >>
  /\ last.result[1].embedding # NoEmbedding
  /\ Len(last.messages) = 2
  /\ Cardinality(repo.conversations) > 1
\* rows the seeded tables do not hold: created by the requests of this behaviour
NewChats == {ch \in db.chats : ch.id >= SeedDb(NullText, NullText, 1, FALSE).seq.chats}
NewMessages(chatId) ==
  {m \in db.messages :
     m.chat_id = chatId /\ m.id >= SeedDb(NullText, NullText, 1, FALSE).seq.messages}
Bodies(list) == [k \in 1..Len(list) |-> Body(list[k])]

(* C17: a saveChatMessages call that returns with no chatId given has created
   exactly one chat, owned by userId, with the given description and metadata,
   whose message list equals the input messages, and returns its id; with the id
   of a chat of userId it creates no chat, returns chatId, and the chat's message
   list is the previous list followed by the input messages. *)
C17_SaveCreatesOrAppends ==
  \A p \in Procs :
    Succeeded(p, "saveChatMessages") =>
      LET P == proc[p] IN
      /\ P.chatId = 0 =>
           /\ Cardinality(NewChats) = 1
           /\ \A ch \in NewChats :
                /\ ch.id = P.ret /\ ch.user_id = P.userId
                /\ ch.description = (IF P.description = Undefined THEN NullText
                                     ELSE P.description)
                /\ ch.metadata = (IF P.metadata = Undefined THEN NullText ELSE P.metadata)
           /\ Bodies(StoredMessages(P.ret)) = Bodies(P.messages)
      /\ (P.chatId # 0 /\ \E ch \in db.chats : ch.id = P.chatId /\ ch.user_id = P.userId) =>
           /\ NewChats = {}
           /\ P.ret = P.chatId
           /\ Bodies(SeqById(NewMessages(P.chatId))) = Bodies(P.messages)
           /\ {m.id : m \in {x \in db.messages : x.chat_id = P.chatId}} \ Ids(NewMessages(P.chatId))
                = {m.id : m \in {x \in SeedMessages(1) : x.chat_id = P.chatId}}

(* C18: getChatDetails returns a chat's messages in the order in which they were
   inserted (the order of their SERIAL ids), also when several of them carry the
   same created_at. *)
C18_MessagesInInsertionOrder ==
  \A p \in Procs :
    Succeeded(p, "getChatDetails") =>
      \A i, j \in 1..Len(proc[p].list) : i < j => proc[p].list[i].id < proc[p].list[j].id
\* the seeded chats of a user, and the seeded messages of those chats
SeedChatIds(userId) == Ids({ch \in SeedChats(NullText, NullText) : ch.user_id = userId})
SeedMessageIds(userId) ==
  Ids({m \in SeedMessages(1) : m.chat_id \in SeedChatIds(userId)})

C19_Outcome ==
  \A p \in Procs :
    LET P == proc[p] IN
    (Settled(p, "deleteAllChatDataForUser") /\ P.userId # 0) =>
      IF P.result = "ok"
      THEN /\ \A ch \in db.chats : ch.user_id # P.userId
           /\ \A m \in db.messages \cup db.snapshots : m.chat_id \notin SeedChatIds(P.userId)
      ELSE /\ SeedChatIds(P.userId) \subseteq Ids(db.chats)
           /\ SeedMessageIds(P.userId) \subseteq Ids(db.messages)

\* a step of deleteAllChatDataForUser(U) leaves the rows of every other user alone
C19_Frame ==
  \A p \in Procs :
    (proc[p].op = "deleteAllChatDataForUser" /\ proc'[p].op = "deleteAllChatDataForUser") =>
      LET others(t) == {ch \in t.chats : ch.user_id # proc[p].userId}
          of(t, rows) == {m \in rows : m.chat_id \in Ids(others(t))}
      IN  /\ others(db') = others(db)
          /\ of(db', db'.messages) = of(db, db.messages)
          /\ of(db', db'.snapshots) = of(db, db.snapshots)

(* C19: after deleteAllChatDataForUser(U) has completed successfully no chat of U
   and no message or snapshot of such a chat exists, and the chats, messages and
   snapshots of every other user are unchanged; if it fails, U's chats and their
   messages are all still present. *)
C19_DeleteAllIsAtomic == []C19_Outcome /\ [][C19_Frame]_vars

C20_ForeignKeys ==
  /\ \A m \in db.messages \cup db.snapshots : m.chat_id \in Ids(db.chats)
  /\ \A ch \in db.chats : ch.user_id \in Ids(db.users)
  /\ \A cv \in repo.conversations : cv.project_id \in Ids(repo.projects)
  /\ \A q \in repo.projects : q.user_id \in Ids(repo.users)

(* C20: in every reachable database state every message and snapshot references
   an existing chat, every chat an existing user, every conversation an existing
   project and every project an existing user: deleting a user, project or chat
   removes the rows that depend on it. *)
C20_ReferencesAlwaysResolve == C20_ForeignKeys

C20_Witness ==
  \E p \in Procs :
    /\ Succeeded(p, "deleteUser") /\ proc[p].ret = 1
    /\ proc[p].userId \notin Ids(db.users)
    /\ SeedMessageIds(proc[p].userId) \cap Ids(db.messages) = {}
    /\ db.messages # {}
\* the chat exists and belongs to the caller
Owns(userId, chatId) == \E ch \in db.chats : ch.id = chatId /\ ch.user_id = userId

(* C21: setSnapshot(chatId, data, owner) whose statements all run on one
   connection and suffer no infrastructure failure succeeds, and the chat then has
   exactly one snapshot row, the one getSnapshot returns, carrying data;
   setSnapshot by a user who does not own the chat fails and changes no
   snapshot. *)
C21_SnapshotUpsert ==
  \A p \in Procs :
    LET P == proc[p] IN
    (Settled(p, "setSnapshot") /\ P.chatId # 0 /\ P.snapshotData # Undefined) =>
      /\ (Owns(P.userId, P.chatId) /\ failures = 0 /\ Cardinality(P.used) = 1) =>
           /\ P.result = "ok"
           /\ \E x \in db.snapshots :
                /\ {y \in db.snapshots : y.chat_id = P.chatId} = {x}
                /\ x.snapshot_data = P.snapshotData
                /\ \A c \in Conns : SelectSnapshot(c, FALSE, P.chatId).val = {x}
      /\ ~Owns(P.userId, P.chatId) =>
           /\ P.result = "rejected"
           /\ \E n \in BOOLEAN : db.snapshots = SeedSnapshots(n)
\* the cosine similarity of e and q is above th = num/den (0 <= th <= 1)
SimilarityAbove(e, q, th) ==
  /\ e # NoEmbedding
  /\ Dot(e, q) > 0
  /\ (Dot(e, q) * Dot(e, q)) * (th.den * th.den) > (th.num * th.num) * (Dot(e, e) * Dot(q, q))

\* x is at least as similar to q as y, for x and y at an acute angle to q
AtLeastAsSimilar(x, y, q) ==
  (Dot(x, q) * Dot(x, q)) * Dot(y, y) >= (Dot(y, q) * Dot(y, q)) * Dot(x, x)

\* the conversations of the call's project that clear the call's threshold
C24_Clearing ==
  {cv \in repo.conversations :
     /\ cv.project_id = last.projectId
     /\ SimilarityAbove(cv.embedding, last.embedding, last.similarityThreshold)}

C24_Result ==
  (last.op = "findSimilarConversations" /\ ~last.failed) =>
    LET r == last.result
        n == Cardinality(C24_Clearing)
    IN  /\ Len(r) = IF last.limit < n THEN last.limit ELSE n
        /\ \A k \in 1..Len(r) :
             \E cv \in C24_Clearing :
               /\ r[k].id = cv.id /\ r[k].project_id = last.projectId
               /\ r[k].messages = cv.messages /\ r[k].embedding = cv.embedding
        /\ \A i, j \in 1..Len(r) :
             i < j => /\ r[i].id # r[j].id
                      /\ AtLeastAsSimilar(r[i].embedding, r[j].embedding, last.embedding)
        /\ \A cv \in C24_Clearing :
             (\A k \in 1..Len(r) : r[k].id # cv.id) =>
               \A k \in 1..Len(r) :
                 AtLeastAsSimilar(r[k].embedding, cv.embedding, last.embedding)

C24_Frame == Called("findSimilarConversations") => repo' = repo

(* C24: findSimilarConversations(projectId, q, limit, threshold) returns the
   conversations of projectId whose embedding has cosine similarity to q above
   threshold (distance below 1 - threshold), most similar first, cut to the first
   `limit`; an empty list when none clears the threshold; never a conversation
   of another project; and it writes nothing. *)
C24_FindSimilarConversations == []C24_Result /\ [][C24_Frame]_vars

C24_Witness ==
  /\ last.op = "findSimilarConversations" /\ ~last.failed
  /\ last.limit = 2 /\ Len(last.result) = 2
  /\ Cardinality(C24_Clearing) = 3
  /\ ~AtLeastAsSimilar(last.result[2].embedding, last.result[1].embedding, last.embedding)
  /\ \E cv \in repo.conversations :
       /\ cv.project_id # last.projectId
       /\ SimilarityAbove(cv.embedding, last.embedding, last.similarityThreshold)
(* C25: a getProjectsByUserId(U) call that follows a getProjectsByUserId(U) call
   with no write in between returns the same rows in the same order, also when
   projects of U share an updated_at. *)
C25_GetProjectsIsRepeatable ==
  [][(/\ Called("getProjectsByUserId") /\ ~last'.failed
      /\ last.op = "getProjectsByUserId" /\ ~last.failed
      /\ last'.userId = last.userId)
     => last'.result = last.result]_vars
\* what a registration answers when its pre-check finds the email taken
ConflictStatus(op) == IF op = "register" THEN 409 ELSE 400

(* C26: when two registration requests for the same, not yet registered email
   have both settled, exactly one user row carries that email, one request
   succeeded, and the other was answered with the conflict outcome of its route
   (the status its pre-check gives for a taken email), not with a 500. *)
C26_ConcurrentRegistrationConflict ==
  \A p, q \in Procs :
    (/\ p # q
     /\ proc[p].pc = "done" /\ proc[q].pc = "done"
     /\ proc[p].op \in RegisterOps /\ proc[q].op \in RegisterOps
     /\ proc[p].email = proc[q].email
     /\ proc[p].email \notin {u.email : u \in SeedRepo.users})
    => /\ Cardinality({u \in repo.users : u.email = proc[p].email}) = 1
       /\ proc[p].result = "ok" \/ proc[q].result = "ok"
       /\ proc[p].result # "ok" => proc[p].ret = ConflictStatus(proc[p].op)
\* the hook's full history: its archived messages followed by its messages
FullHistory == hook.archivedMessages \o hook.messages

(* C29: while the client stores message history in an existing chat, no message
   of the conversation is stored twice in the chat, and once a store request
   that ran on one connection has succeeded and nothing is in flight, the chat's
   stored list equals the client's full history. *)
C29_HistoryStoredOnce ==
  workload = "history" =>
    /\ \A m, n \in {x \in db.messages : x.chat_id = 1} :
         (m.role = n.role /\ m.content = n.content) => m = n
    /\ \A p \in Procs :
         (Succeeded(p, "saveChatMessages") /\ Cardinality(proc[p].used) = 1
          /\ \A c \in Conns : conns[c].tx = "none") =>
           Bodies(StoredMessages(1)) = Bodies(FullHistory)
\* position of the message with this id among the loaded messages (0: not loaded)
LoadedAt(id) == findIndex(hook.loaded, id)

(* C30: right after the hook has processed loader data whose snapshot names a
   loaded message, its archived messages followed by its active messages are a prefix of the loaded list; when rewindTo
   names a loaded message no message after that one is active; and when rewindTo
   names the snapshot's message nothing is archived, at every snapshot position,
   the first included. *)
C30_SnapshotRewindSplit ==
  (workload = "history" /\ hook.ready /\ calls = HistoryCalls
   /\ LoadedAt(hook.chatIndex) # 0) =>
    /\ Len(FullHistory) <= Len(hook.loaded)
    /\ FullHistory = SubSeq(hook.loaded, 1, Len(FullHistory))
    /\ LoadedAt(hook.rewindId) # 0 =>
         \A k \in 1..Len(hook.messages) :
           LoadedAt(hook.messages[k].id) <= LoadedAt(hook.rewindId)
    /\ (LoadedAt(hook.chatIndex) # 0 /\ hook.rewindId = hook.chatIndex) =>
         hook.archivedMessages = << >>
(* ------------------------- concurrent forks --------------------------- *)
\* the messages of chat 1 before any fork, in the order getChatDetails reads
\* them (their created_at differ), up to the first one with the given id
ForkPrefix(msgId) ==
  LET own == CHOOSE f \in OrderByCreatedAtAsc({m \in SeedMessages(2) : m.chat_id = 1}) : TRUE
  IN  SubSeq(own, 1, findIndex(own, msgId))

ForkStored(p) ==
  /\ proc[p].result = "ok"
  /\ proc[p].ret \in Ids(db.chats)
  /\ Bodies(StoredMessages(proc[p].ret)) = Bodies(ForkPrefix(proc[p].msgId))

(* C22: when two forkChat invocations of user 1 on chat 1, each naming a
   message of the chat, have both settled, both have succeeded, their new chat
   ids differ, and each new chat holds the prefix of the pre-fork messages up
   to its message. *)
C22_ConcurrentForksBothSucceed ==
  (workload = "race" /\ \A p \in Procs : Settled(p, "forkChat")) =>
    /\ \A p \in Procs : ForkStored(p)
    /\ \A p, q \in Procs : p # q => proc[p].ret # proc[q].ret
(* C27: when a forkChat whose statements all ran on one connection has
   returned success beside a saveChatMessages that failed and sent ROLLBACK,
   the rows the fork wrote (its chat and the copied messages) are present. *)
C27_RollbackSparesOtherOperation ==
  \A p, q \in Procs :
    (/\ workload = "race"
     /\ Succeeded(p, "forkChat") /\ Cardinality(proc[p].used) = 1
     /\ Rejected(q, "saveChatMessages")) => ForkStored(p)
(* ------------------------ transactions closed ------------------------- *)
InFlight(p) == proc[p].pc \notin {"idle", "done"}

(* C28: whenever no chat operation is in flight, no pooled connection has an
   open transaction, also after an operation has failed and after the
   ownership check of setSnapshot or deleteSnapshot has thrown. *)
C28_EveryBeginIsClosed ==
  (\A p \in Procs : ~InFlight(p)) => \A c \in Conns : conns[c].tx # "open"
(* C23: a call of the query gateway that has settled, whether its statement
   succeeded or threw, holds no client, so when no call is in flight no client
   is checked out of the pool. *)
C23_NoConnectionLeftCheckedOut ==
  /\ \A p \in Procs : proc[p].pc = "done" => proc[p].client = 0
  /\ (\A p \in Procs : ~InFlight(p)) => CheckedOut = {}

\* a gateway call whose statement threw on the client it had acquired has settled
C23_Witness ==
  \E p \in Procs :
    /\ Rejected(p, "query_remix") /\ proc[p].used # {}
    /\ proc[p].error # ""
    /\ \A q \in Procs : ~InFlight(q)
====
